---- MODULE Spec2Model ----
(***************************************************************************)
(* A model of the AWS cost-and-usage report generator:                     *)
(*   aws-cost-and-usage-report.py  (pagination, cost table, top-5, writer)  *)
(*   reservations.py, savings_plans.py (utilization / coverage /           *)
(*   purchase-recommendation subsystems), config.py, utils.py.             *)
(*                                                                         *)
(* Money: an API amount is a decimal string; it is modelled as an integer  *)
(* number of milli-dollars (three decimals).  A value that pandas has      *)
(* rounded to 2 decimals is an integer number of cents.                    *)
(***************************************************************************)
EXTENDS Integers, Sequences, FiniteSets, TLC

VARIABLES
    pc,        \* position of the running script or function
    input,     \* the list of monthly results handed to ce_response_to_dataframe
    table,     \* the data frame ce_response_to_dataframe returned
    top,       \* top_five_services_by_max_diff
    run,       \* the module-level script: filter, requests, tables, file, sheet
    api,       \* the pages the billing API will answer with, in order
    kwargs,    \* the extra parameters (Filter) given to get_cost_and_usage
    fetched,   \* outcome of get_cost_and_usage: status, results, requests sent
    util,      \* arguments of the utility function called, and the clock
    sensitivity, \* --sensitivity, written to cell $B$3 (milli-dollars)
    rules,     \* the conditional formats registered on the worksheet, in order
    shown,     \* what the spreadsheet application shows for each cell of the range
    config,    \* config.py: the feature toggles and the coverage service list
    calls,     \* the Cost Explorer and Organizations calls made so far, in order
    ret,       \* what the called function returned, or the exception it raised
    sub        \* locals of get_savings_plans_dataframes / get_reservations_dataframes

tableVars == <<input, table, top, run>>
pageVars == <<api, kwargs, fetched, util>>
formatVars == <<sensitivity, rules, shown>>
subVars == <<config, calls, ret, sub>>

vars == <<pc, input, table, top, run, api, kwargs, fetched, util, sensitivity, rules, shown,
          config, calls, ret, sub>>

(* The values of the variables that a specification leaves unused *)

NoTable == [index |-> <<>>, columns |-> <<>>, data |-> <<>>]
NotFetched == [status |-> "not_called", results |-> <<>>, requests |-> <<>>]

NoRun == [start |-> [year |-> 0, month |-> 0], existed |-> FALSE,
          file |-> "absent", filter |-> <<>>,
          requests |-> <<>>, top_five_services_df |-> <<>>,
          df_per_account |-> NoTable, sheet |-> <<>>, row_counter |-> 0,
          steps |-> <<>>, error |-> "None"]
IdleTable == input = <<>> /\ table = NoTable /\ top = <<>> /\ run = NoRun
NoUtil == [function |-> "None"]
IdlePage == api = <<>> /\ kwargs = "no_filter" /\ fetched = NotFetched /\ util = NoUtil
IdleFormat == sensitivity = 0 /\ rules = <<>> /\ shown = <<>>

\* config.py as shipped: both toggles on, no coverage service list defined
ShippedConfig ==
    [GET_SAVINGS_PLANS_INFO |-> TRUE, GET_RESERVED_INSTANCES_INFO |-> TRUE,
     coverage_defined |-> FALSE, LIST_OF_SERVICES_FOR_RESERVATIONS_COVERAGE |-> <<>>]

NoDataframe == [none |-> TRUE, rows |-> <<>>]
NotReturned == [status |-> "not_called", none |-> TRUE, value |-> <<>>]
NoLocals == [utilization |-> NoDataframe, coverage |-> NoDataframe,
             raw |-> <<>>, i |-> 0,
             coverage_answer |-> "None"]

IdleSub == config = ShippedConfig /\ calls = <<>> /\ ret = NotReturned /\ sub = NoLocals

-----------------------------------------------------------------------------
(* Generic helpers *)

Range(s) == {s[i] : i \in 1..Len(s)}

\* rows_sorted_by_max_diff[0:5] on a shorter list: the slice stops at its end
Min(a, b) == IF a < b THEN a ELSE b

\* round(n / d) to the nearest integer, ties to even (numpy's rint), d > 0
RoundDiv(n, d) ==
    LET q == n \div d
        r == n % d
    IN  IF 2 * r < d THEN q
        ELSE IF 2 * r > d THEN q + 1
        ELSE IF q % 2 = 0 THEN q ELSE q + 1

RECURSIVE SumSeq(_)
SumSeq(s) == IF s = <<>> THEN 0 ELSE Head(s) + SumSeq(Tail(s))

InsertAt(s, pos, x) == SubSeq(s, 1, pos) \o <<x>> \o SubSeq(s, pos + 1, Len(s))

-----------------------------------------------------------------------------
(* Bounds of the cost-table inputs *)

\* the most groups one API response carries over all its months
MaxGroups == 3

\* dimension keys (service names / account ids) the API may report
Keys == {"EC2", "S3", "RDS"}

\* API amounts, in milli-dollars: 0.004 and 0.006 round to 0.00 and 0.01,
\* 290.000 and 300.000 are the 29-day and 30-day normalisation examples
Amounts == {4, 6, 290000, 300000}

\* first month of the 3-month window: 2022-12 wraps the year and holds the
\* 28-day February 2023; 2024-02 holds the 29-day February and a 30-day April
StartMonths == {[year |-> 2022, month |-> 12], [year |-> 2024, month |-> 2]}

\* the window is 3 months long
WindowMonths == 3

TotalCost == "Total Cost"

-----------------------------------------------------------------------------
(* calendar.monthrange *)

IsLeap(y) == (y % 4 = 0) /\ ((y % 100 # 0) \/ (y % 400 = 0))

\* faulty variant: February always has 28 days
monthrangeNoLeap(y, m) ==
    IF m = 2 THEN 28 ELSE IF m \in {4, 6, 9, 11} THEN 30 ELSE 31

monthrange(y, m) ==
    IF m = 2 THEN (IF IsLeap(y) THEN 29 ELSE 28)
    ELSE IF m \in {4, 6, 9, 11} THEN 30 ELSE 31

\* the month k months after label l
AddMonths(l, k) ==
    LET z == (l.year * 12 + (l.month - 1)) + k
    IN  [year |-> z \div 12, month |-> (z % 12) + 1]

-----------------------------------------------------------------------------
(* Inputs of ce_response_to_dataframe: a list of monthly results, each with *)
(* its TimePeriod.Start label and its Groups (one group per dimension key). *)

Group == [key : Keys, amt : Amounts]

GroupKeys(groups) == [i \in 1..Len(groups) |-> groups[i].key]

\* sequences of at most n groups with pairwise distinct keys
RECURSIVE GroupSeqs(_)
GroupSeqs(n) ==
    IF n = 0 THEN {<<>>}
    ELSE LET S == GroupSeqs(n - 1)
         IN  S \cup UNION {{Append(s, g) : g \in {h \in Group : h.key \notin Range(GroupKeys(s))}}
                           : s \in {t \in S : Len(t) = n - 1}}

MonthlyResults(first, g1, g2, g3) ==
    << [start |-> first,               groups |-> g1],
       [start |-> AddMonths(first, 1), groups |-> g2],
       [start |-> AddMonths(first, 2), groups |-> g3] >>

-----------------------------------------------------------------------------
(* ce_response_to_dataframe, first pass: all keys in order of appearance *)

RECURSIVE AddKeys(_, _)
AddKeys(groups, acc) ==
    IF groups = <<>> THEN acc
    ELSE AddKeys(Tail(groups),
                 IF Head(groups).key \in Range(acc) THEN acc
                 ELSE Append(acc, Head(groups).key))

RECURSIVE AllKeysFrom(_, _)
AllKeysFrom(months, acc) ==
    IF months = <<>> THEN acc
    ELSE AllKeysFrom(Tail(months), AddKeys(Head(months).groups, acc))

AllKeys(inp) == AllKeysFrom(inp, <<>>)

(* second pass: rows is an insertion-ordered dict key -> list of floats,    *)
(* modelled as a sequence of [key, vals] in insertion order                 *)

HasKey(rows, k) == \E i \in 1..Len(rows) : rows[i].key = k

\* rows[key].append(v), creating rows[key] = [] first when it is missing
RowsAppend(rows, k, v) ==
    IF HasKey(rows, k)
    THEN [i \in 1..Len(rows) |->
            IF rows[i].key = k THEN [rows[i] EXCEPT !.vals = Append(@, v)] ELSE rows[i]]
    ELSE Append(rows, [key |-> k, vals |-> <<v>>])

RECURSIVE AppendGroups(_, _)
AppendGroups(rows, groups) ==
    IF groups = <<>> THEN rows
    ELSE AppendGroups(RowsAppend(rows, Head(groups).key, Head(groups).amt), Tail(groups))

\* faulty variant: the zero fill forgotten
ZeroFillNone(rows, keys, thisMonth) == rows

\* the zero fill of the keys that this month does not mention
RECURSIVE ZeroFill(_, _, _)
ZeroFill(rows, keys, thisMonth) ==
    IF keys = <<>> THEN rows
    ELSE ZeroFill(IF Head(keys) \notin Range(thisMonth)
                  THEN RowsAppend(rows, Head(keys), 0) ELSE rows,
                  Tail(keys), thisMonth)

CollectMonth(rows, month, all_keys) ==
    LET r1 == AppendGroups(rows, month.groups)
        all_keys_for_this_month == GroupKeys(month.groups)
    IN  IF all_keys_for_this_month = all_keys THEN r1
        ELSE ZeroFill(r1, all_keys, all_keys_for_this_month)

RECURSIVE CollectRows(_, _, _)
CollectRows(rows, months, all_keys) ==
    IF months = <<>> THEN rows
    ELSE CollectRows(CollectMonth(rows, Head(months), all_keys), Tail(months), all_keys)

ColumnNames(inp) == [i \in 1..Len(inp) |-> inp[i].start]

\* a row shorter than the column list is padded with NaN, then fillna(0)
PadRow(vals, n) == [j \in 1..n |-> IF j <= Len(vals) THEN vals[j] ELSE 0]

\* pandas.DataFrame(rows.values(), columns=column_names, index=all_keys):
\* the i-th collected list becomes the row of the i-th index key
InitialFrame(inp) ==
    LET all_keys == AllKeys(inp)
        rows == CollectRows(<<>>, inp, all_keys)
    IN  [i \in 1..Len(all_keys) |->
            [key |-> all_keys[i], vals |-> PadRow(rows[i].vals, Len(inp))]]

\* df.round(2): milli-dollars to cents
Round2(milli) == RoundDiv(milli, 10)

RoundFrame(frame) ==
    [i \in 1..Len(frame) |->
        [key |-> frame[i].key,
         vals |-> [j \in 1..Len(frame[i].vals) |-> Round2(frame[i].vals[j])]]]

\* df.loc[(df != 0).any(axis=1)]
NonZeroRow(row) == \E j \in 1..Len(row.vals) : row.vals[j] # 0

DropZeroRows(frame) == SelectSeq(frame, NonZeroRow)

\* the "Total Cost" row: the sum of every column of the frame
ColumnSum(frame, j) == SumSeq([i \in 1..Len(frame) |-> frame[i].vals[j]])

\* faulty variant: the total leaves out the first row of the frame
TotalRowSkipFirst(frame, ncols) ==
    [key |-> TotalCost,
     vals |-> [j \in 1..ncols |-> ColumnSum(SubSeq(frame, 2, Len(frame)), j)]]

TotalRow(frame, ncols) ==
    [key |-> TotalCost, vals |-> [j \in 1..ncols |-> ColumnSum(frame, j)]]

AppendTotal(frame, ncols) == Append(frame, TotalRow(frame, ncols))

\* df.sort_values(df.columns.tolist(), ascending=False): lexicographic over
\* all columns, first column most significant, equal rows keep their order
RECURSIVE LexGreater(_, _)
LexGreater(a, b) ==
    IF a = <<>> \/ b = <<>> THEN FALSE
    ELSE IF Head(a) # Head(b) THEN Head(a) > Head(b)
    ELSE LexGreater(Tail(a), Tail(b))

RECURSIVE InsertDesc(_, _)
InsertDesc(sorted, row) ==
    IF sorted = <<>> THEN <<row>>
    ELSE IF LexGreater(row.vals, Head(sorted).vals) THEN <<row>> \o sorted
    ELSE <<Head(sorted)>> \o InsertDesc(Tail(sorted), row)

RECURSIVE SortFrom(_, _)
SortFrom(sorted, rest) ==
    IF rest = <<>> THEN sorted
    ELSE SortFrom(InsertDesc(sorted, Head(rest)), Tail(rest))

\* faulty variant: the sorted copy is thrown away, the frame stays as built
SortSkipped(frame) == frame

SortValues(frame) == SortFrom(<<>>, frame)

\* cells of the final frame: a number (cents) or the '' of the separator
Num(v) == <<v>>
Blank == <<>>
IsBlank(c) == c = <<>>
Val(c) == c[1]

RawLabel(l) == [kind |-> "raw", year |-> l.year, month |-> l.month]
NormLabel(l) == [kind |-> "n", year |-> l.year, month |-> l.month]
SepLabel == [kind |-> "---", year |-> 0, month |-> 0]

\* final_df[f'n {column}'] = df[column].div(number_of_days).round(2)
Normalize(cents, label) == RoundDiv(cents, monthrange(label.year, label.month))

SeparatorPosition == 3

\* the sorted frame with the normalized columns appended and the separator
\* inserted at position 3 (zero-indexed)
FinalFrame(frame, column_names) ==
    LET n == Len(column_names)
        cols == [j \in 1..(2 * n) |->
                    IF j <= n THEN RawLabel(column_names[j])
                    ELSE NormLabel(column_names[j - n])]
        cells(row) == [j \in 1..(2 * n) |->
                    IF j <= n THEN Num(row.vals[j])
                    ELSE Num(Normalize(row.vals[j - n], column_names[j - n]))]
    IN  [index   |-> [i \in 1..Len(frame) |-> frame[i].key],
         columns |-> InsertAt(cols, SeparatorPosition, SepLabel),
         data    |-> [i \in 1..Len(frame) |->
                        InsertAt(cells(frame[i]), SeparatorPosition, Blank)]]

KeptFrame(inp) == DropZeroRows(RoundFrame(InitialFrame(inp)))

ce_response_to_dataframe(inp) ==
    LET df == KeptFrame(inp)
        withTotal == AppendTotal(df, Len(inp))
    IN  FinalFrame(SortValues(withTotal), ColumnNames(inp))

-----------------------------------------------------------------------------
(* The conditional formats of the worksheet.  Sheet column 1 is the index *)
(* column A, so column j of the data frame is sheet column j + 1; cell     *)
(* values are cents, the sensitivity is in milli-dollars.                  *)

normalized_cost_start_column_number == 5

\* normalized_cost_end_column_letter = chr(ord('@') + len(df.columns) + 1)
normalized_cost_end_column_number(t) == Len(t.columns) + 1

\* the cell of sheet column c >= 2 in the r-th data row of the primary
\* table; the rows below the table are empty
SheetCell(t, r, c) ==
    IF r <= Len(t.index) /\ c - 1 <= Len(t.columns) THEN t.data[r][c - 1] ELSE Blank

\* a blank cell counts as 0 in arithmetic
CellNumber(c) == IF IsBlank(c) THEN 0 ELSE Val(c)

\* faulty variant: the first guard looks at the cell itself, COLUMN()
LeftBlankCriteriaSelf(cur, left, sens) == IsBlank(cur)

\* '=ISBLANK(INDIRECT(ADDRESS(ROW(), COLUMN()-1)))'
LeftBlankCriteria(cur, left, sens) == IsBlank(left)

\* '=ISBLANK(INDIRECT(ADDRESS(ROW(), COLUMN())))'
CurrentBlankCriteria(cur, left, sens) == IsBlank(cur)

\* faulty variant: a strict comparison in the red rule
IncreaseCriteriaStrict(cur, left, sens) ==
    10 * (CellNumber(cur) - CellNumber(left)) > sens

\* '=(current - previous) >= INDIRECT("$B$3")'
IncreaseCriteria(cur, left, sens) ==
    10 * (CellNumber(cur) - CellNumber(left)) >= sens

\* '=(current - previous) < (-1)*INDIRECT("$B$3")'
DecreaseCriteria(cur, left, sens) ==
    10 * (CellNumber(cur) - CellNumber(left)) < (-1) * sens

CriteriaHolds(rule, cur, left, sens) ==
    CASE rule.criteria = "left_blank" -> LeftBlankCriteria(cur, left, sens)
      [] rule.criteria = "current_blank" -> CurrentBlankCriteria(cur, left, sens)
      [] rule.criteria = "increase" -> IncreaseCriteria(cur, left, sens)
      [] rule.criteria = "decrease" -> DecreaseCriteria(cur, left, sens)

\* the rules of rs that hold for a cell, in registration order
HoldingRules(rs, cur, left, sens) ==
    SelectSeq(rs, LAMBDA rule : CriteriaHolds(rule, cur, left, sens))

\* every rule sets the background, so the first holding rule decides it
Background(rs, cur, left, sens) ==
    LET h == HoldingRules(rs, cur, left, sens)
    IN  IF h = <<>> THEN "none" ELSE Head(h).format

\* the conditional_format calls of the script, in program order
RuleLeftBlank == [criteria |-> "left_blank", format |-> "white"]
RuleCurrentBlank == [criteria |-> "current_blank", format |-> "white"]
RuleIncrease == [criteria |-> "increase", format |-> "red"]
RuleDecrease == [criteria |-> "decrease", format |-> "green"]

\* rows of the range that the model renders: the table and one row below it
RenderedRows(t) == 1..(Len(t.index) + 1)
RangeColumns(t) ==
    normalized_cost_start_column_number..normalized_cost_end_column_number(t)

Render(t, rs, sens) ==
    [r \in RenderedRows(t) |->
        [c \in RangeColumns(t) |->
            [holding |-> {h.criteria : h \in Range(HoldingRules(rs,
                              SheetCell(t, r, c), SheetCell(t, r, c - 1), sens))},
             bg |-> Background(rs, SheetCell(t, r, c), SheetCell(t, r, c - 1), sens)]]]

\* --sensitivity values: 0, 0.1 (the default), 0.105, and a negative one
Sensitivities == {0, 100, 105, -100}

\* amounts (milli-dollars) whose normalized values differ by 0.10 and 0.11
FormatAmounts == {0, 3100, 6510}

\* two services over the three months of the window starting 2022-12; an
\* amount of 0 stands for a service the month does not report
FormatInput(a, b) ==
    LET g(m) == (IF a[m] = 0 THEN <<>> ELSE <<[key |-> "EC2", amt |-> a[m]]>>) \o
                (IF b[m] = 0 THEN <<>> ELSE <<[key |-> "S3", amt |-> b[m]]>>)
    IN  MonthlyResults([year |-> 2022, month |-> 12], g(1), g(2), g(3))

(* Specification SpecFormat: the four conditional_format calls on a written *)
(* primary table, then the spreadsheet application rendering the range      *)

InitFormat ==
    /\ pc = "format_left_blank"
    /\ \E a, b \in [1..WindowMonths -> FormatAmounts] :
          /\ input = FormatInput(a, b)
          /\ table = ce_response_to_dataframe(FormatInput(a, b))
    /\ top = <<>>
    /\ run = NoRun
    /\ sensitivity \in Sensitivities
    /\ rules = <<>>
    /\ shown = <<>>
    /\ IdlePage
    /\ IdleSub

AddRule(at, rule, next) ==
    /\ pc = at
    /\ rules' = Append(rules, rule)
    /\ pc' = next
    /\ UNCHANGED <<tableVars, pageVars, subVars, sensitivity, shown>>

FormatLeftBlank == AddRule("format_left_blank", RuleLeftBlank, "format_current_blank")
FormatCurrentBlank == AddRule("format_current_blank", RuleCurrentBlank, "format_increase")
FormatIncrease == AddRule("format_increase", RuleIncrease, "format_decrease")
FormatDecrease == AddRule("format_decrease", RuleDecrease, "format_saved")

OpenWorkbook ==
    /\ pc = "format_saved"
    /\ shown' = Render(table, rules, sensitivity)
    /\ pc' = "format_shown"
    /\ UNCHANGED <<tableVars, pageVars, subVars, sensitivity, rules>>

NextFormat ==
    \/ FormatLeftBlank
    \/ FormatCurrentBlank
    \/ FormatIncrease
    \/ FormatDecrease
    \/ OpenWorkbook

SpecFormat == InitFormat /\ [][NextFormat]_vars

-----------------------------------------------------------------------------
(* get_cost_and_usage: the pagination loop *)

\* the most pages the API splits one answer into
MaxPages == 3

None == "None"

\* NextPageToken of the i-th page that has a successor
PageToken(i) == <<"token1", "token2", "token3", "token4">>[i]

\* ResultsByTime of one page
PageResults == {<<>>, <<"m1">>, <<"m1", "m2">>}

ExtraParams == {"no_filter", "Filter"}

\* the scripted answers of ce.get_cost_and_usage: k pages, the first k-1 with
\* a NextPageToken; the last call may also fail with a client error
ApiScripts ==
    UNION {{[i \in 1..k |-> [results |-> r[i],
                              token |-> IF i < k THEN PageToken(i) ELSE None,
                              fail |-> (i = k /\ f)]]
            : r \in [1..k -> PageResults], f \in BOOLEAN}
           : k \in 1..MaxPages}

\* one pass of the `while True` body and, when a token came back, the next
RECURSIVE PageLoop(_, _, _, _, _)
PageLoop(pages, kw, token, results, requests) ==
    IF token # None
    THEN \* params = {'NextPageToken': token} + kwargs : dict + dict
         [status |-> "TypeError", results |-> <<>>, requests |-> requests]
    ELSE LET sent == Append(requests, [NextPageToken |-> None, extra |-> kw])
             data == pages[Len(sent)]
         IN  IF data.fail
             THEN [status |-> "ClientError", results |-> <<>>, requests |-> sent]
             ELSE IF data.token = None
             THEN [status |-> "returned", results |-> results \o data.results,
                   requests |-> sent]
             ELSE PageLoop(pages, kw, data.token, results \o data.results, sent)

get_cost_and_usage(pages, kw) == PageLoop(pages, kw, None, <<>>, <<>>)

-----------------------------------------------------------------------------
(* The Cost Explorer calls of the two subsystems.  A call raises           *)
(* DataUnavailableException, raises some other exception, or returns a     *)
(* response; a response is modelled by its groups (subscriptions, plans,   *)
(* coverages), each named by the account it belongs to.                    *)

\* the most groups one utilization / coverage response carries
MaxResponseGroups == 2

AccountNames == {"dev", "prod"}

ResponseGroups == UNION {[1..n -> AccountNames] : n \in 0..MaxResponseGroups}

Outcomes ==
    {[kind |-> "DataUnavailable", groups |-> <<>>], [kind |-> "Error", groups |-> <<>>]}
    \cup {[kind |-> "ok", groups |-> g] : g \in ResponseGroups}

Returned(v) == [status |-> "returned", none |-> FALSE, value |-> v]
ReturnedNone == [status |-> "returned", none |-> TRUE, value |-> <<>>]
Raised(e) == [status |-> e, none |-> TRUE, value |-> <<>>]

\* faulty variant: only DataUnavailableException is caught
CatchDataUnavailableOnly(outcome) ==
    IF outcome.kind = "ok" THEN Returned(outcome.groups)
    ELSE IF outcome.kind = "DataUnavailable" THEN ReturnedNone
    ELSE Raised(outcome.kind)

\* try: return client.<call>(...)
\* except client.exceptions.DataUnavailableException: return None
\* except Exception: return None
get_reservations_utilizations_data(outcome) ==
    IF outcome.kind = "ok" THEN Returned(outcome.groups)
    ELSE IF outcome.kind = "DataUnavailable" THEN ReturnedNone
    ELSE ReturnedNone

get_reservation_coverage_data(outcome) ==
    IF outcome.kind = "ok" THEN Returned(outcome.groups)
    ELSE IF outcome.kind = "DataUnavailable" THEN ReturnedNone
    ELSE ReturnedNone

get_savings_plans_utilization_details(outcome) ==
    IF outcome.kind = "ok" THEN Returned(outcome.groups)
    ELSE IF outcome.kind = "DataUnavailable" THEN ReturnedNone
    ELSE ReturnedNone

get_savings_plans_coverage_info(outcome) ==
    IF outcome.kind = "ok" THEN Returned(outcome.groups)
    ELSE IF outcome.kind = "DataUnavailable" THEN ReturnedNone
    ELSE ReturnedNone

(* Specification SpecFetch: each fetch function called on its own against  *)
(* any answer of the API                                                    *)

InitFetch ==
    /\ pc = "fetch_call"
    /\ api \in ApiScripts
    /\ kwargs \in ExtraParams
    /\ fetched = NotFetched
    /\ util = NoUtil
    /\ IdleTable
    /\ IdleFormat
    /\ IdleSub

CallGetCostAndUsage ==
    /\ pc = "fetch_call"
    /\ fetched' = get_cost_and_usage(api, kwargs)
    /\ calls' = [i \in 1..Len(fetched'.requests) |-> "get_cost_and_usage"]
    /\ ret' = IF fetched'.status = "returned" THEN Returned(fetched'.results)
              ELSE Raised(fetched'.status)
    /\ pc' = "fetch_done"
    /\ UNCHANGED <<api, kwargs, util, tableVars, formatVars, config, sub>>

CallFetcher(name, outcome, result) ==
    /\ pc = "fetch_call"
    /\ calls' = <<name>>
    /\ sub' = [sub EXCEPT !.raw = <<outcome>>]
    /\ ret' = result
    /\ pc' = "fetch_done"
    /\ UNCHANGED <<tableVars, pageVars, formatVars, config>>

CallReservationsUtilizationsData ==
    \E o \in Outcomes :
        CallFetcher("get_reservation_utilization", o, get_reservations_utilizations_data(o))

CallReservationCoverageData ==
    \E o \in Outcomes :
        CallFetcher("get_reservation_coverage", o, get_reservation_coverage_data(o))

CallSavingsPlansUtilizationDetails ==
    \E o \in Outcomes :
        CallFetcher("get_savings_plans_utilization_details", o,
                    get_savings_plans_utilization_details(o))

CallSavingsPlansCoverageInfo ==
    \E o \in Outcomes :
        CallFetcher("get_savings_plans_coverage", o, get_savings_plans_coverage_info(o))

NextFetch ==
    \/ CallGetCostAndUsage
    \/ CallReservationsUtilizationsData
    \/ CallReservationCoverageData
    \/ CallSavingsPlansUtilizationDetails
    \/ CallSavingsPlansCoverageInfo

SpecFetch == InitFetch /\ [][NextFetch]_vars

-----------------------------------------------------------------------------
(* Specification SpecTable: ce_response_to_dataframe applied to any monthly *)
(* results within the bounds                                                *)

InitTable ==
    /\ pc = "table_input"
    /\ \E first \in StartMonths :
         \E g1 \in GroupSeqs(MaxGroups) :
           \E g2 \in GroupSeqs(MaxGroups - Len(g1)) :
             \E g3 \in GroupSeqs(MaxGroups - Len(g1) - Len(g2)) :
               input = MonthlyResults(first, g1, g2, g3)
    /\ table = NoTable
    /\ top = <<>>
    /\ run = NoRun
    /\ IdlePage
    /\ IdleFormat
    /\ IdleSub

BuildTable ==
    /\ pc = "table_input"
    /\ table' = ce_response_to_dataframe(input)
    /\ pc' = "table_built"
    /\ UNCHANGED <<input, top, run, pageVars, formatVars, subVars>>

NextTable == BuildTable

SpecTable == InitTable /\ [][NextTable]_vars

-----------------------------------------------------------------------------
(* The top-changing services: script lines 194-201 *)

\* df[last_month_norm_column_name] - df[month_before_last_norm_column_name]
\* for the i-th row: the last column minus the one before it
RowDiff(t, i) ==
    Val(t.data[i][Len(t.columns)]) - Val(t.data[i][Len(t.columns) - 1])

\* .sort_values(ascending=False): the orders of the rows in S that descend
\* by RowDiff; the order of rows with equal differences is the sort's choice
RECURSIVE SortedOrders(_, _)
SortedOrders(t, S) ==
    IF S = {} THEN {<<>>}
    ELSE UNION {{<<i>> \o rest : rest \in SortedOrders(t, S \ {i})}
                : i \in {m \in S : \A o \in S : RowDiff(t, m) >= RowDiff(t, o)}}

\* faulty variant: the 'Total Cost' row is not removed
KeepTotal(keys) == keys

\* rows_sorted_by_max_diff.remove('Total Cost'): the first occurrence
RemoveTotal(keys) ==
    LET at == CHOOSE i \in 1..Len(keys) :
                  keys[i] = TotalCost /\ \A j \in 1..(i - 1) : keys[j] # TotalCost
    IN  SubSeq(keys, 1, at - 1) \o SubSeq(keys, at + 1, Len(keys))

TopN == 5

\* rows_sorted_by_max_diff[0:5]
top_five_services_by_max_diff(t, order) ==
    LET rows_sorted_by_max_diff == RemoveTotal([i \in 1..Len(order) |-> t.index[order[i]]])
    IN  SubSeq(rows_sorted_by_max_diff, 1, Min(TopN, Len(rows_sorted_by_max_diff)))

\* the most services the primary report holds
MaxServices == 6

ServiceName(i) == <<"svc1", "svc2", "svc3", "svc4", "svc5", "svc6", "svc7", "svc8">>[i]

\* what a service costs in the last two months (milli-dollars): 0.10 a day
\* in one of them and nothing in the other
TopAmounts == {<<3100, 0>>, <<0, 2800>>}

\* the services of a month of cost[] in which they cost something
RECURSIVE TopGroups(_, _, _)
TopGroups(cost, m, i) ==
    IF i > Len(cost) THEN <<>>
    ELSE (IF cost[i][m] = 0 THEN <<>>
          ELSE <<[key |-> ServiceName(i), amt |-> cost[i][m]]>>)
         \o TopGroups(cost, m, i + 1)

TopInput(cost) ==
    MonthlyResults([year |-> 2022, month |-> 12], <<>>,
                   TopGroups(cost, 1, 1), TopGroups(cost, 2, 1))

(* Specification SpecTop: the primary table of up to MaxServices services   *)
(* and the selection of the top-changing ones                               *)

InitTop ==
    /\ pc = "table_input"
    /\ \E n \in 0..MaxServices : \E cost \in [1..n -> TopAmounts] :
          input = TopInput(cost)
    /\ table = NoTable
    /\ top = <<>>
    /\ run = NoRun
    /\ IdlePage
    /\ IdleFormat
    /\ IdleSub

SelectTopFive ==
    /\ pc = "table_built"
    /\ \E order \in SortedOrders(table, 1..Len(table.index)) :
          top' = top_five_services_by_max_diff(table, order)
    /\ pc' = "top_selected"
    /\ UNCHANGED <<input, table, run, pageVars, formatVars, subVars>>

NextTop == BuildTable \/ SelectTopFive

SpecTop == InitTop /\ [][NextTop]_vars

-----------------------------------------------------------------------------
(* The module-level script: identity, primary report, top-five break down,  *)
(* per-account report, removal of an old output file, the workbook          *)

\* filter = {"And": []} and the appends guarded by args.exclude_credit and
\* args.exclude_refunds
RecordTypeFilter(value) == [Not |-> TRUE, Key |-> "RECORD_TYPE", Value |-> value]

BaseFilter(args) ==
    (IF args.exclude_credit THEN <<RecordTypeFilter("Credit")>> ELSE <<>>)
    \o (IF args.exclude_refunds THEN <<RecordTypeFilter("Refund")>> ELSE <<>>)

\* --exclude_credit and --exclude_refunds are store_true flags whose default
\* is True: parse_args yields True with or without the flag
ParsedArgs == {[exclude_credit |-> TRUE, exclude_refunds |-> TRUE]}

ServiceConstraint(service_name) ==
    [Not |-> FALSE, Key |-> "SERVICE", Value |-> service_name]

\* faulty variant: service_filter = filter, the append reaches the one dict
ServiceFilterAliased(filter, service_name) ==
    [filter |-> Append(filter, ServiceConstraint(service_name)),
     service_filter |-> Append(filter, ServiceConstraint(service_name))]

\* service_filter = copy.deepcopy(filter); service_filter['And'].append(...):
\* the filter of the script and the filter of the service after the append
ServiceFilter(filter, service_name) ==
    [filter |-> filter,
     service_filter |-> Append(filter, ServiceConstraint(service_name))]

\* what the billing API may answer for one window: no group at all, two
\* services, one service of less than a cent in the first month
RunResponses(first) ==
    {MonthlyResults(first, <<>>, <<>>, <<>>),
     MonthlyResults(first, <<[key |-> "EC2", amt |-> 290000]>>,
                    <<[key |-> "EC2", amt |-> 300000], [key |-> "S3", amt |-> 6]>>,
                    <<[key |-> "S3", amt |-> 300000], [key |-> "EC2", amt |-> 290000]>>),
     MonthlyResults(first, <<[key |-> "RDS", amt |-> 4]>>, <<>>,
                    <<[key |-> "RDS", amt |-> 6]>>)}

\* the answer in one page, a failing call, or the answer split in two pages
RunScripts(first) ==
    {<<[results |-> r, token |-> None, fail |-> FALSE]>> : r \in RunResponses(first)}
    \cup {<<[results |-> <<>>, token |-> None, fail |-> TRUE]>>}
    \cup {<<[results |-> SubSeq(r, 1, 2), token |-> PageToken(1), fail |-> FALSE],
            [results |-> SubSeq(r, 3, 3), token |-> None, fail |-> FALSE]>>
          : r \in {MonthlyResults(first, <<>>, <<>>, <<>>)}}

\* get_cost_and_usage(start, end, group_by=..., Filter=..., metrics=metrics)
Fetch(script, group_by, filter) ==
    get_cost_and_usage(script, [GroupBy |-> group_by, Filter |-> filter])

Step(r, name) == [r EXCEPT !.steps = Append(@, name)]

\* faulty variant: the output file is cleared away when a fetch fails
AbortAndRemove(r, name, f) ==
    [Step(r, name) EXCEPT !.requests = @ \o f.requests, !.error = f.status,
                          !.file = "absent"]

\* an exception nobody catches ends the script
Abort(r, name, f) ==
    [Step(r, name) EXCEPT !.requests = @ \o f.requests, !.error = f.status]

\* top_five_df.sort_values(df.columns.tolist(), ascending=False, inplace=True)
\* on a final frame: the '' cells of the separator column are all equal
SortFinal(t) ==
    LET numbers(cells) == [j \in 1..(Len(cells) - 1) |->
                              IF j <= SeparatorPosition THEN Val(cells[j])
                              ELSE Val(cells[j + 1])]
        sorted == SortValues([i \in 1..Len(t.index) |->
                     [key |-> t.index[i],
                      vals |-> IF Len(t.data[i]) > SeparatorPosition
                               THEN numbers(t.data[i]) ELSE <<>>,
                      cells |-> t.data[i]]])
    IN  [index   |-> [i \in 1..Len(sorted) |-> sorted[i].key],
         columns |-> t.columns,
         data    |-> [i \in 1..Len(sorted) |-> sorted[i].cells]]

\* df.loc[service_name][last...] - df.loc[service_name][month_before_last...]
ServiceDiff(t, service_name) ==
    RowDiff(t, CHOOSE i \in 1..Len(t.index) : t.index[i] = service_name)

table_row_number == 6

\* cells of the worksheet (zero-indexed rows and columns) that a write fills
Placement(what, first_row, last_row, first_col, last_col) ==
    [what |-> what, first_row |-> first_row, last_row |-> last_row,
     first_col |-> first_col, last_col |-> last_col]

\* df.to_excel(writer, startrow=startrow, startcol=0, index=True): the
\* header row, one row per index key; the index column, one per column
ToExcel(what, t, startrow) ==
    Placement(what, startrow, startrow + Len(t.index), 0, Len(t.columns))

\* faulty variant: the row of the A1 range taken as a zero-indexed row
MergeAHZeroIndexed(what, row) == Placement(what, row, row, 0, 7)

\* worksheet.merge_range(f'A{row}:H{row}', ...): A1 rows count from 1
MergeAH(what, row) == Placement(what, row - 1, row - 1, 0, 7)

\* for service in top_five_services_by_max_diff: title, table, row_counter
RECURSIVE WriteServices(_, _, _)
WriteServices(services, sheet, row_counter) ==
    IF services = <<>> THEN [sheet |-> sheet, row_counter |-> row_counter]
    ELSE LET s == Head(services)
         IN  WriteServices(Tail(services),
                 sheet \o <<MergeAH("service_title", row_counter),
                            ToExcel("service_table", s.df, row_counter)>>,
                 row_counter + Len(s.df.index) + 3)

(* Specification SpecRun: one run of the script *)

InitRun ==
    /\ pc = "run_identity"
    /\ \E first \in StartMonths, args \in ParsedArgs, file \in {"absent", "old"} :
          run = [NoRun EXCEPT !.start = first, !.file = file,
                              !.existed = (file = "old"),
                              !.filter = BaseFilter(args)]
    /\ input = <<>>
    /\ table = NoTable
    /\ top = <<>>
    /\ IdlePage
    /\ IdleFormat
    /\ IdleSub

\* sts.get_caller_identity(), twice
RunIdentity ==
    /\ pc = "run_identity"
    /\ \E ok \in BOOLEAN :
          IF ok
          THEN pc' = "run_primary" /\ run' = Step(run, "get_caller_identity")
          ELSE /\ pc' = "run_aborted"
               /\ run' = [Step(run, "get_caller_identity") EXCEPT !.error = "ClientError"]
    /\ UNCHANGED <<input, table, top, pageVars, formatVars, subVars>>

\* results = get_cost_and_usage(start, end, Filter=filter, metrics=metrics)
RunPrimary ==
    /\ pc = "run_primary"
    /\ \E script \in RunScripts(run.start) :
          LET f == Fetch(script, "SERVICE", run.filter)
          IN  IF f.status = "returned"
              THEN /\ input' = f.results
                   /\ run' = [Step(run, "primary_fetch") EXCEPT !.requests = @ \o f.requests]
                   /\ pc' = "run_table"
              ELSE /\ run' = Abort(run, "primary_fetch", f)
                   /\ pc' = "run_aborted"
                   /\ UNCHANGED input
    /\ UNCHANGED <<table, top, pageVars, formatVars, subVars>>

\* df = ce_response_to_dataframe(results)
RunTable ==
    /\ pc = "run_table"
    /\ table' = ce_response_to_dataframe(input)
    /\ run' = Step(run, "primary_table")
    /\ pc' = "run_top_five"
    /\ UNCHANGED <<input, top, pageVars, formatVars, subVars>>

RunTopFive ==
    /\ pc = "run_top_five"
    /\ \E order \in SortedOrders(table, 1..Len(table.index)) :
          top' = top_five_services_by_max_diff(table, order)
    /\ run' = Step(run, "top_five")
    /\ pc' = "run_per_service"
    /\ UNCHANGED <<input, table, pageVars, formatVars, subVars>>

\* one pass of the loop of get_cost_and_usage_report_per_service
RunPerService ==
    /\ pc = "run_per_service"
    /\ Len(run.top_five_services_df) < Len(top)
    /\ \E script \in RunScripts(run.start) :
          LET service_name == top[Len(run.top_five_services_df) + 1]
              filters == ServiceFilter(run.filter, service_name)
              f == Fetch(script, "USAGE_TYPE", filters.service_filter)
          IN  IF f.status = "returned"
              THEN /\ run' = [Step(run, "per_service") EXCEPT
                                !.filter = filters.filter,
                                !.requests = @ \o f.requests,
                                !.top_five_services_df = Append(@,
                                    [service |-> service_name,
                                     df |-> SortFinal(ce_response_to_dataframe(f.results)),
                                     diff |-> ServiceDiff(table, service_name)])]
                   /\ pc' = "run_per_service"
              ELSE /\ run' = [Abort(run, "per_service", f) EXCEPT
                                !.filter = filters.filter]
                   /\ pc' = "run_aborted"
    /\ UNCHANGED <<input, table, top, pageVars, formatVars, subVars>>

\* return top_five_services_df
RunPerServiceReturn ==
    /\ pc = "run_per_service"
    /\ Len(run.top_five_services_df) = Len(top)
    /\ pc' = "run_per_account"
    /\ UNCHANGED <<tableVars, pageVars, formatVars, subVars>>

\* results_per_account = get_cost_and_usage(...LINKED_ACCOUNT...);
\* df_per_account = ce_response_to_dataframe(results_per_account)
RunPerAccount ==
    /\ pc = "run_per_account"
    /\ \E script \in RunScripts(run.start) :
          LET f == Fetch(script, "LINKED_ACCOUNT", run.filter)
          IN  IF f.status = "returned"
              THEN /\ run' = [Step(run, "per_account") EXCEPT
                                !.requests = @ \o f.requests,
                                !.df_per_account = ce_response_to_dataframe(f.results)]
                   /\ pc' = "run_remove"
              ELSE /\ run' = Abort(run, "per_account", f)
                   /\ pc' = "run_aborted"
    /\ UNCHANGED <<input, table, top, pageVars, formatVars, subVars>>

\* if os.path.isfile(report_file_name): os.remove(report_file_name)
RunRemoveFile ==
    /\ pc = "run_remove"
    /\ IF run.file = "absent"
       THEN run' = run /\ pc' = "run_write"
       ELSE \E removed \in BOOLEAN :
              IF removed
              THEN /\ run' = [Step(run, "os.remove") EXCEPT !.file = "absent"]
                   /\ pc' = "run_write"
              ELSE /\ run' = [Step(run, "os.remove") EXCEPT !.error = "PermissionError"]
                   /\ pc' = "run_aborted"
    /\ UNCHANGED <<input, table, top, pageVars, formatVars, subVars>>

\* with pandas.ExcelWriter(...) as writer: the primary table, the per-account
\* table, the banner of the break down and one table per service
RunWriteTables ==
    /\ pc = "run_write"
    /\ LET after_primary == table_row_number + Len(table.index) + 3
           after_account == after_primary + Len(run.df_per_account.index) + 2
           written == WriteServices(run.top_five_services_df,
                         <<ToExcel("primary_table", table, table_row_number),
                           MergeAH("per_account_title", after_primary),
                           ToExcel("per_account_table", run.df_per_account, after_primary),
                           MergeAH("top_five_banner", after_account)>>,
                         after_account + 1)
       IN  run' = [Step(run, "write_tables") EXCEPT
                     !.sheet = written.sheet, !.row_counter = written.row_counter]
    /\ pc' = "run_format"
    /\ UNCHANGED <<input, table, top, pageVars, formatVars, subVars>>

\* the column widths, the banner rows, the sensitivity cell, the four
\* conditional formats, and the end of the with block, which saves the file
RunFormatAndSave ==
    /\ pc = "run_format"
    /\ rules' = rules \o <<RuleLeftBlank, RuleCurrentBlank, RuleIncrease, RuleDecrease>>
    /\ \E saved \in BOOLEAN :
          LET banners ==
                <<Placement("generated_using", 0, 0, 0, 9),
                  Placement("generated_by", 1, 1, 0, 9),
                  Placement("monthly_banner", 5, 5, 0, 3),
                  Placement("normalized_banner", 5, 5, 5, 7),
                  Placement("sensitivity_label", 2, 2, 0, 0),
                  Placement("sensitivity_value", 2, 2, 1, 1),
                  Placement("comments", table_row_number, table_row_number,
                            Len(table.columns) + 1, Len(table.columns) + 1),
                  Placement("suggestions", table_row_number, table_row_number,
                            Len(table.columns) + 2, Len(table.columns) + 2)>>
              r == [Step(run, "save") EXCEPT !.sheet = @ \o banners]
          IN  IF saved
              THEN run' = [r EXCEPT !.file = "new"] /\ pc' = "run_done"
              ELSE /\ \E left \in {"absent", "partial"} :
                        run' = [r EXCEPT !.error = "OSError", !.file = left]
                   /\ pc' = "run_aborted"
    /\ UNCHANGED <<input, table, top, pageVars, subVars, sensitivity, shown>>

NextRun ==
    \/ RunIdentity
    \/ RunPrimary
    \/ RunTable
    \/ RunTopFive
    \/ RunPerService
    \/ RunPerServiceReturn
    \/ RunPerAccount
    \/ RunRemoveFile
    \/ RunWriteTables
    \/ RunFormatAndSave

SpecRun == InitRun /\ [][NextRun]_vars

-----------------------------------------------------------------------------
(* The with block alone, entered with frames of any size *)

\* the most rows below the 'Total Cost' row of a per-account or per-service
\* frame
MaxRows == 2

\* n services, the i-th costing 3.10 * i in the second month and nothing in
\* the third: no two services change by the same amount
LayoutCost(n) == [i \in 1..n |-> <<3100 * i, 0>>]

\* the frames of the responses that name n keys: n rows and 'Total Cost'
LayoutFrames ==
    [n \in 0..(IF MaxServices > MaxRows THEN MaxServices ELSE MaxRows) |->
        ce_response_to_dataframe(TopInput(LayoutCost(n)))]

LayoutFrame(n) == LayoutFrames[n]

\* the frames as get_cost_and_usage_report_per_service keeps them
LayoutBreakDowns == [n \in 0..MaxRows |-> SortFinal(LayoutFrame(n))]

\* the steps of the script up to the with block, for services many services
LayoutSteps(services) ==
    <<"get_caller_identity", "primary_fetch", "primary_table", "top_five">>
    \o [i \in 1..services |-> "per_service"] \o <<"per_account">>

(* Specification SpecLayout: the script from the with block on, after a    *)
(* primary report of up to MaxServices services                            *)

InitLayout ==
    /\ pc = "run_write"
    /\ \E services \in 0..MaxServices, accounts \in 0..MaxRows :
          LET df == LayoutFrame(services)
          IN  /\ input = TopInput(LayoutCost(services))
              /\ table = df
              /\ \E order \in SortedOrders(df, 1..Len(df.index)) :
                     top = top_five_services_by_max_diff(df, order)
              /\ \E usage_types \in [1..Len(top) -> 0..MaxRows] :
                     run = [NoRun EXCEPT
                              !.start = [year |-> 2022, month |-> 12],
                              !.filter = BaseFilter([exclude_credit |-> TRUE,
                                                     exclude_refunds |-> TRUE]),
                              !.top_five_services_df =
                                  [i \in 1..Len(top) |->
                                      [service |-> top[i],
                                       df |-> LayoutBreakDowns[usage_types[i]],
                                       diff |-> ServiceDiff(df, top[i])]],
                              !.df_per_account = LayoutFrame(accounts),
                              !.steps = LayoutSteps(Len(top))]
    /\ IdlePage
    /\ IdleFormat
    /\ IdleSub

NextLayout == RunWriteTables \/ RunFormatAndSave

SpecLayout == InitLayout /\ [][NextLayout]_vars

-----------------------------------------------------------------------------
(* Properties of get_cost_and_usage *)

RECURSIVE Concat(_)
Concat(ss) == IF ss = <<>> THEN <<>> ELSE Head(ss) \o Concat(Tail(ss))

\* C1: when the API answers with k >= 1 pages, the first k-1 carrying a
\* NextPageToken and the k-th none, get_cost_and_usage issues exactly k
\* requests, every request after the first carries the token of the previous
\* response together with the forwarded extra parameters, and it returns the
\* concatenation of the k pages' ResultsByTime in page order.
C1_AllPagesFetched ==
    (fetched.status # "not_called" /\ \A i \in 1..Len(api) : ~api[i].fail) =>
        /\ fetched.status = "returned"
        /\ Len(fetched.requests) = Len(api)
        /\ \A i \in 1..Len(fetched.requests) :
              /\ fetched.requests[i].extra = kwargs
              /\ fetched.requests[i].NextPageToken =
                    (IF i = 1 THEN None ELSE api[i - 1].token)
        /\ fetched.results = Concat([i \in 1..Len(api) |-> api[i].results])

-----------------------------------------------------------------------------
(* utils.py: labels and formatting *)

humanize_lookback_period(code) ==
    CASE code = "SEVEN_DAYS" -> "7 days"
      [] code = "SIXTY_DAYS" -> "60 days"
      [] code = "THIRTY_DAYS" -> "30 days"

humanize_savings_plans_type(code) ==
    CASE code = "COMPUTE_SP" -> "Compute Savings Plans"
      [] code = "EC2_INSTANCE_SP" -> "EC2 Instance Savings Plans"
      [] code = "SAGEMAKER_SP" -> "SageMaker Savings Plans"

\* "$" + str(round(float(x), 1)): the text "$12.3" is [prefix "$", 123 tenths]
to_dollars(milli) == [prefix |-> "$", tenths |-> RoundDiv(milli, 100)]

-----------------------------------------------------------------------------
(* config.py *)

SP_CONFIG ==
    << [SavingsPlansType |-> "COMPUTE_SP", LookbackPeriodInDays |-> "THIRTY_DAYS"],
       [SavingsPlansType |-> "EC2_INSTANCE_SP", LookbackPeriodInDays |-> "THIRTY_DAYS"],
       [SavingsPlansType |-> "SAGEMAKER_SP", LookbackPeriodInDays |-> "THIRTY_DAYS"] >>

RPR_CONFIG ==
    << [Service |-> "Amazon Elastic Compute Cloud - Compute", LookbackPeriodInDays |-> "THIRTY_DAYS"],
       [Service |-> "Amazon Relational Database Service", LookbackPeriodInDays |-> "THIRTY_DAYS"],
       [Service |-> "Amazon ElastiCache", LookbackPeriodInDays |-> "THIRTY_DAYS"],
       [Service |-> "Amazon Redshift", LookbackPeriodInDays |-> "THIRTY_DAYS"],
       [Service |-> "Amazon Elasticsearch Service", LookbackPeriodInDays |-> "THIRTY_DAYS"] >>

\* configurations a deployment may run with: config.py as shipped defines no
\* LIST_OF_SERVICES_FOR_RESERVATIONS_COVERAGE; the toggles may be edited
Configs ==
    {[GET_SAVINGS_PLANS_INFO |-> sp, GET_RESERVED_INSTANCES_INFO |-> ri,
      coverage_defined |-> (l # <<"undefined">>),
      LIST_OF_SERVICES_FOR_RESERVATIONS_COVERAGE |-> IF l = <<"undefined">> THEN <<>> ELSE l]
     : sp \in BOOLEAN, ri \in BOOLEAN,
       l \in {<<"undefined">>, <<>>,
              <<"Amazon Elastic Compute Cloud - Compute">>,
              <<"Amazon Elastic Compute Cloud - Compute",
                "Amazon Relational Database Service">>}}

-----------------------------------------------------------------------------
(* reservations.py and savings_plans.py: the data frames *)

Dataframe(rows) == [none |-> FALSE, rows |-> rows]

\* one row per group, one organizations list_accounts call per row (it is
\* not guarded: a failing call propagates), then the "Total" row
UtilizationTable(groups, orgOk) ==
    IF groups # <<>> /\ ~orgOk
    THEN [status |-> "ClientError", df |-> NoDataframe, calls |-> <<"list_accounts">>]
    ELSE [status |-> "returned",
          df |-> Dataframe(groups \o <<"Total">>),
          calls |-> [i \in 1..Len(groups) |-> "list_accounts"]]

get_reservations_utilization_df(outcome, orgOk) ==
    LET data == get_reservations_utilizations_data(outcome)
        call == <<"get_reservation_utilization">>
    IN  IF data.status # "returned"
        THEN [status |-> data.status, df |-> NoDataframe, calls |-> call]
        ELSE IF data.none \/ data.value = <<>>
        THEN [status |-> "returned", df |-> NoDataframe, calls |-> call]
        ELSE LET t == UtilizationTable(data.value, orgOk)
             IN  [t EXCEPT !.calls = call \o @]

\* an empty details list gives a frame without columns, and
\* df["EndDateTime"] then raises KeyError
get_savings_plans_utilization_df(outcome, orgOk) ==
    LET details == get_savings_plans_utilization_details(outcome)
        call == <<"get_savings_plans_utilization_details">>
    IN  IF details.status # "returned"
        THEN [status |-> details.status, df |-> NoDataframe, calls |-> call]
        ELSE IF details.none
        THEN [status |-> "returned", df |-> NoDataframe, calls |-> call]
        ELSE IF details.value = <<>>
        THEN [status |-> "KeyError", df |-> NoDataframe, calls |-> call]
        ELSE LET t == UtilizationTable(details.value, orgOk)
             IN  [t EXCEPT !.calls = call \o @]

\* an empty coverage list gives a frame without columns, and df["Coverage"]
\* then raises KeyError; no "Total" row is appended
get_savings_plans_coverage_df(outcome) ==
    LET coverage_info == get_savings_plans_coverage_info(outcome)
        call == <<"get_savings_plans_coverage">>
    IN  IF coverage_info.status # "returned"
        THEN [status |-> coverage_info.status, df |-> NoDataframe, calls |-> call]
        ELSE IF coverage_info.none
        THEN [status |-> "returned", df |-> NoDataframe, calls |-> call]
        ELSE IF coverage_info.value = <<>>
        THEN [status |-> "KeyError", df |-> NoDataframe, calls |-> call]
        ELSE [status |-> "returned", df |-> Dataframe(coverage_info.value), calls |-> call]

\* answers of a purchase-recommendation call: an exception, or a response
\* with no summary, a summary without a savings amount, or a savings amount
RecommendationOutcomes ==
    {[kind |-> k, savings |-> 0]
        : k \in {"DataUnavailable", "Error", "no_summary", "no_savings"}}
    \cup {[kind |-> "ok", savings |-> 12340]}

\* savings_plans_purchase_recommendations_to_dict applied to the answer of
\* the call for sppr_input; <<>> when the entry contributes no record
SavingsPlansRecommendation(sppr_input, outcome) ==
    IF outcome.kind = "ok"
    THEN << [EstimatedMonthlySavings |-> outcome.savings,
             Currency |-> "USD",
             LookbackPeriodInDays |-> sppr_input.LookbackPeriodInDays,
             SavingsPlansType |->
                 humanize_savings_plans_type(sppr_input.SavingsPlansType)] >>
    ELSE <<>>

format_saving_plan_recommendations(raw) ==
    [i \in 1..Len(raw) |->
        [SavingsPlansType |-> raw[i].SavingsPlansType,
         EstimatedMonthlySavings |-> to_dollars(raw[i].EstimatedMonthlySavings),
         LookbackPeriodInDays |-> humanize_lookback_period(raw[i].LookbackPeriodInDays)]]

\* get_savings_plans_purchase_recommendations_df, after the loop
RecommendationsDataframe(raw_spprs) ==
    IF raw_spprs = <<>> THEN NoDataframe
    ELSE Dataframe(format_saving_plan_recommendations(raw_spprs))

\* the columns the reservations table keeps: the savings go through
\* to_dollars, the lookback period is copied as the API gave it
format_reservations_purchase_recomendations_df(raw_df) ==
    [i \in 1..Len(raw_df) |->
        [ServiceReservation |-> raw_df[i].ServiceReservation,
         EstimatedMonthlySavings |-> to_dollars(raw_df[i].EstimatedMonthlySavings),
         LookbackPeriodInDays |-> raw_df[i].LookbackPeriodInDays]]

\* the most records a raw recommendations frame holds
MaxRecords == 2

\* frames of the records reservations_purchase_recomendations_to_dict makes
RawRecommendations ==
    UNION {[1..n -> [EstimatedMonthlySavings : {50, 12340},
                     Currency : {"USD"},
                     LookbackPeriodInDays : {"SEVEN_DAYS", "THIRTY_DAYS", "SIXTY_DAYS"},
                     ServiceReservation : {RPR_CONFIG[1].Service, RPR_CONFIG[2].Service}]]
           : n \in 0..MaxRecords}

\* logging.Logger has no method named debur
LoggerMethods == {"debug", "info", "warning", "error", "critical", "exception", "log"}
LoggerCall(method) == IF method \in LoggerMethods THEN "logged" ELSE "AttributeError"

\* faulty variant: the feature toggles are not consulted
ToggleIgnored(cfg, name) == TRUE

Toggle(cfg, name) ==
    IF name = "GET_SAVINGS_PLANS_INFO" THEN cfg.GET_SAVINGS_PLANS_INFO
    ELSE cfg.GET_RESERVED_INSTANCES_INFO

(* Specification SpecSub: get_reservations_dataframes (after the import of  *)
(* reservations.py) or get_savings_plans_dataframes, under any              *)
(* configuration and any answers of the APIs                                *)

InitSub ==
    /\ pc \in {"reservations_import", "savings_plans_call"}
    /\ config \in Configs
    /\ calls = <<>>
    /\ ret = NotReturned
    /\ sub = NoLocals
    /\ IdleTable
    /\ IdlePage
    /\ IdleFormat

\* from config import (..., LIST_OF_SERVICES_FOR_RESERVATIONS_COVERAGE)
ImportReservations ==
    /\ pc = "reservations_import"
    /\ IF config.coverage_defined
       THEN pc' = "reservations_call" /\ UNCHANGED ret
       ELSE pc' = "reservations_done" /\ ret' = Raised("ImportError")
    /\ UNCHANGED <<tableVars, pageVars, formatVars, config, calls, sub>>

ReservationsDisabled ==
    /\ pc = "reservations_call"
    /\ ~Toggle(config, "GET_RESERVED_INSTANCES_INFO")
    /\ ret' = ReturnedNone
    /\ pc' = "reservations_done"
    /\ UNCHANGED <<tableVars, pageVars, formatVars, config, calls, sub>>

ReservationsUtilization ==
    /\ pc = "reservations_call"
    /\ Toggle(config, "GET_RESERVED_INSTANCES_INFO")
    /\ \E o \in Outcomes, orgOk \in BOOLEAN :
          LET r == get_reservations_utilization_df(o, orgOk)
          IN  /\ calls' = calls \o r.calls
              /\ sub' = [sub EXCEPT !.utilization = r.df, !.raw = <<o>>]
              /\ IF r.status = "returned"
                 THEN pc' = "reservations_recommendations" /\ UNCHANGED ret
                 ELSE pc' = "reservations_done" /\ ret' = Raised(r.status)
    /\ UNCHANGED <<tableVars, pageVars, formatVars, config>>

\* the result list is being built: get_reservations_purchase_recommendations_df
\* calls get_reservations_purchase_recommendations_info, whose second
\* statement is logger.debur(...); the exception leaves
\* get_reservations_dataframes before any recommendation or coverage call
ReservationsRecommendations ==
    /\ pc = "reservations_recommendations"
    /\ LoggerCall("info") = "logged"
    /\ LoggerCall("debur") # "logged"
    /\ ret' = Raised(LoggerCall("debur"))
    /\ pc' = "reservations_done"
    /\ UNCHANGED <<tableVars, pageVars, formatVars, config, calls, sub>>

SavingsPlansDisabled ==
    /\ pc = "savings_plans_call"
    /\ ~Toggle(config, "GET_SAVINGS_PLANS_INFO")
    /\ ret' = ReturnedNone
    /\ pc' = "savings_plans_done"
    /\ UNCHANGED <<tableVars, pageVars, formatVars, config, calls, sub>>

SavingsPlansUtilization ==
    /\ pc = "savings_plans_call"
    /\ Toggle(config, "GET_SAVINGS_PLANS_INFO")
    /\ \E o \in Outcomes, orgOk \in BOOLEAN :
          LET r == get_savings_plans_utilization_df(o, orgOk)
          IN  /\ calls' = calls \o r.calls
              /\ sub' = [sub EXCEPT !.utilization = r.df]
              /\ IF r.status = "returned"
                 THEN pc' = "savings_plans_coverage" /\ UNCHANGED ret
                 ELSE pc' = "savings_plans_done" /\ ret' = Raised(r.status)
    /\ UNCHANGED <<tableVars, pageVars, formatVars, config>>

\* faulty variant: the coverage table is kept as it came
KeepCoverage(savings_plans_utilization_df, savings_plans_coverage_df) ==
    savings_plans_coverage_df

\* if savings_plans_utilization_df is None: savings_plans_coverage_df = None
ForceAbsent(savings_plans_utilization_df, savings_plans_coverage_df) ==
    IF savings_plans_utilization_df.none THEN NoDataframe
    ELSE savings_plans_coverage_df

\* savings_plans_coverage_df, forced to None when the utilization is None
SavingsPlansCoverage ==
    /\ pc = "savings_plans_coverage"
    /\ \E o \in Outcomes :
          LET r == get_savings_plans_coverage_df(o)
          IN  /\ calls' = calls \o r.calls
              /\ sub' = [sub EXCEPT !.coverage = ForceAbsent(sub.utilization, r.df),
                          !.coverage_answer = o.kind,
                          !.i = IF r.status = "returned" THEN 1 ELSE @]
              /\ IF r.status = "returned"
                 THEN pc' = "savings_plans_recommendations" /\ UNCHANGED ret
                 ELSE pc' = "savings_plans_done" /\ ret' = Raised(r.status)
    /\ UNCHANGED <<tableVars, pageVars, formatVars, config>>

\* one pass of the loop of get_savings_plans_purchase_recommendations_info
SavingsPlansRecommendationCall ==
    /\ pc = "savings_plans_recommendations"
    /\ sub.i <= Len(SP_CONFIG)
    /\ \E o \in RecommendationOutcomes :
          sub' = [sub EXCEPT !.raw = @ \o SavingsPlansRecommendation(SP_CONFIG[sub.i], o),
                             !.i = @ + 1]
    /\ calls' = Append(calls, "get_savings_plans_purchase_recommendation")
    /\ UNCHANGED <<pc, tableVars, pageVars, formatVars, config, ret>>

SavingsPlansReturn ==
    /\ pc = "savings_plans_recommendations"
    /\ sub.i > Len(SP_CONFIG)
    /\ ret' = Returned([utilization |-> sub.utilization,
                         coverage |-> sub.coverage,
                         recommendations |-> RecommendationsDataframe(sub.raw)])
    /\ pc' = "savings_plans_done"
    /\ UNCHANGED <<tableVars, pageVars, formatVars, config, calls, sub>>

NextSub ==
    \/ ImportReservations
    \/ ReservationsDisabled
    \/ ReservationsUtilization
    \/ ReservationsRecommendations
    \/ SavingsPlansDisabled
    \/ SavingsPlansUtilization
    \/ SavingsPlansCoverage
    \/ SavingsPlansRecommendationCall
    \/ SavingsPlansReturn

SpecSub == InitSub /\ [][NextSub]_vars

-----------------------------------------------------------------------------
(* utils.py.  Time is counted in ticks, TicksPerDay of them to a day; a     *)
(* timestamp string names a day and a tick of that day.                     *)

\* the latest day a timestamp or the clock names
MaxDays == 6

TicksPerDay == 2

Instants == [day : 0..MaxDays, tick : 0..(TicksPerDay - 1)]

\* a string in the format %Y-%m-%dT%H:%M:%S.%fZ, or one that is not
DateStrings == [wellformed : BOOLEAN, at : Instants]

\* datetime.strptime(...).replace(tzinfo=timezone.utc) and
\* datetime.now(timezone.utc), as ticks since day 0
Ticks(instant) == instant.day * TicksPerDay + instant.tick

\* timedelta.days of a difference of ticks: a timedelta is normalized to
\* days + a non-negative rest, so days is the floor
TimedeltaDays(delta) ==
    IF delta >= 0 THEN delta \div TicksPerDay
    ELSE -((-delta + TicksPerDay - 1) \div TicksPerDay)

\* faulty variant: "1 day" is given up to and including two days
days_untilOffByOne(date_str, now) ==
    IF ~date_str.wellformed THEN Raised("ValueError")
    ELSE LET diff_days == TimedeltaDays(Ticks(date_str.at) - Ticks(now))
         IN  IF diff_days < 1 THEN Returned([text |-> "Less than a day", n |-> 0])
             ELSE IF diff_days <= 2 THEN Returned([text |-> "1 day", n |-> 1])
             ELSE Returned([text |-> "{diff_days} days", n |-> diff_days])

days_until(date_str, now) ==
    IF ~date_str.wellformed THEN Raised("ValueError")
    ELSE LET diff_days == TimedeltaDays(Ticks(date_str.at) - Ticks(now))
         IN  IF diff_days < 1 THEN Returned([text |-> "Less than a day", n |-> 0])
             ELSE IF diff_days = 1 THEN Returned([text |-> "1 day", n |-> 1])
             ELSE Returned([text |-> "{diff_days} days", n |-> diff_days])

\* the most accounts org_client.list_accounts() answers with
MaxAccounts == 3

AccountIds == {"111", "222"}

\* accounts["Accounts"]
AccountLists ==
    UNION {[1..n -> [Name : AccountNames, Id : AccountIds]] : n \in 0..MaxAccounts}

\* f"{account_name}({account['Id']})"
AccountLabel(account_name, id) == <<account_name, "(", id, ")">>

\* the accounts of the list that pass `if account["Name"] == account_name`
Matching(accounts, account_name) ==
    SelectSeq(accounts, LAMBDA account : account.Name = account_name)

\* faulty variant: the last matching account gives the id
LastMatchingAccount(accounts, account_name) ==
    LET matching == Matching(accounts, account_name)
    IN  IF matching = <<>> THEN <<account_name>>
        ELSE AccountLabel(account_name, matching[Len(matching)].Id)

\* next((... for account in accounts["Accounts"] if ...), account_name)
get_account_info_by_account_name(accounts, account_name) ==
    LET matching == Matching(accounts, account_name)
    IN  IF matching = <<>> THEN <<account_name>>
        ELSE AccountLabel(account_name, Head(matching).Id)

\* the dates the clock may show: every day of a common and of a leap year
Dates ==
    {date \in [year : {2023, 2024}, month : 1..12, day : 1..31] :
        date.day <= monthrange(date.year, date.month)}

\* faulty variant: the months are subtracted without borrowing from the year
relativedeltaNoBorrow(date, months) ==
    LET m == ((date.month - 1 - months) % 12) + 1
    IN  [year |-> date.year, month |-> m,
         day |-> Min(date.day, monthrange(date.year, m))]

\* date - relativedelta(months=months): the month count moves back, the
\* day is cut to the length of the month reached
relativedelta(date, months) ==
    LET z == date.year * 12 + (date.month - 1) - months
        y == z \div 12
        m == (z % 12) + 1
    IN  [year |-> y, month |-> m, day |-> Min(date.day, monthrange(y, m))]

\* str(date) and strftime("%Y-%m-%d")
IsoDate(date) == <<date.year, date.month, date.day>>

\* start = (today - relativedelta(months=+3)).replace(day=1)
\* end = today.replace(day=1), sent as str(start_date), str(end_date)
CostWindow(today) ==
    [Start |-> IsoDate([relativedelta(today, 3) EXCEPT !.day = 1]),
     End   |-> IsoDate([today EXCEPT !.day = 1])]

\* config.py: FIRST_DAY_PREV_MONTH, FIRST_DAY_THIS_MONTH
UtilizationWindow(now) ==
    LET first_day_this_month_raw == [year |-> now.year, month |-> now.month, day |-> 1]
        first_day_prev_month_raw == relativedelta(first_day_this_month_raw, 1)
    IN  [Start |-> IsoDate(first_day_prev_month_raw),
         End   |-> IsoDate(first_day_this_month_raw)]

(* Specification SpecUtils: one call of a function of utils.py or of the   *)
(* formatter of the reservation recommendations, or the computation of a   *)
(* report window from the clock                                            *)

InitUtils ==
    /\ pc = "utils_call"
    /\ util \in [function : {"days_until"}, date_str : DateStrings, now : Instants]
              \cup [function : {"get_account_info_by_account_name"},
                    account_name : AccountNames \cup {"Dev"},
                    accounts : AccountLists, fails : BOOLEAN]
              \cup [function : {"cost_window", "utilization_window"}, today : Dates]
              \cup [function : {"format_reservations_purchase_recomendations_df"},
                    raw_df : RawRecommendations]
    /\ api = <<>>
    /\ kwargs = "no_filter"
    /\ fetched = NotFetched
    /\ IdleTable
    /\ IdleFormat
    /\ IdleSub

CallDaysUntil ==
    /\ pc = "utils_call"
    /\ util.function = "days_until"
    /\ ret' = days_until(util.date_str, util.now)
    /\ pc' = "utils_done"
    /\ UNCHANGED <<tableVars, pageVars, formatVars, config, calls, sub>>

CallGetAccountInfo ==
    /\ pc = "utils_call"
    /\ util.function = "get_account_info_by_account_name"
    /\ calls' = Append(calls, "list_accounts")
    /\ ret' = IF util.fails THEN Raised("ClientError")
              ELSE Returned(get_account_info_by_account_name(util.accounts,
                                                             util.account_name))
    /\ pc' = "utils_done"
    /\ UNCHANGED <<tableVars, pageVars, formatVars, config, sub>>

ComputeCostWindow ==
    /\ pc = "utils_call"
    /\ util.function = "cost_window"
    /\ ret' = Returned(CostWindow(util.today))
    /\ pc' = "utils_done"
    /\ UNCHANGED <<tableVars, pageVars, formatVars, config, calls, sub>>

ComputeUtilizationWindow ==
    /\ pc = "utils_call"
    /\ util.function = "utilization_window"
    /\ ret' = Returned(UtilizationWindow(util.today))
    /\ pc' = "utils_done"
    /\ UNCHANGED <<tableVars, pageVars, formatVars, config, calls, sub>>

CallFormatReservationsRecommendations ==
    /\ pc = "utils_call"
    /\ util.function = "format_reservations_purchase_recomendations_df"
    /\ ret' = Returned(format_reservations_purchase_recomendations_df(util.raw_df))
    /\ pc' = "utils_done"
    /\ UNCHANGED <<tableVars, pageVars, formatVars, config, calls, sub>>

NextUtils ==
    \/ CallFormatReservationsRecommendations
    \/ CallDaysUntil
    \/ CallGetAccountInfo
    \/ ComputeCostWindow
    \/ ComputeUtilizationWindow

SpecUtils == InitUtils /\ [][NextUtils]_vars

-----------------------------------------------------------------------------
(* Properties of the fetchers and the two subsystems *)

Titles(result) == {result[i].Title : i \in 1..Len(result)}

\* C7: when the Reserved-Instance utilization call reports DataUnavailable
\* (or fails otherwise), get_reservations_dataframes still returns a result
\* with the "Reservations utilization" entry (absent table) and the
\* "Reservation purchase recommendations" entry, with no coverage entry and
\* without any reservation-coverage call, whatever the coverage list holds.
C7_DegradesGracefully ==
    (/\ pc = "reservations_done"
     /\ config.coverage_defined
     /\ config.GET_RESERVED_INSTANCES_INFO
     /\ sub.raw # <<>>
     /\ sub.raw[1].kind # "ok") =>
        /\ ret.status = "returned"
        /\ ~ret.none
        /\ Titles(ret.value) =
              {"Reservations utilization", "Reservation purchase recommendations"}
        /\ \A i \in 1..Len(ret.value) :
              ret.value[i].Title = "Reservations utilization" => ret.value[i].Dataframe.none
        /\ "get_reservation_coverage" \notin Range(calls)

\* C10: with GET_RESERVED_INSTANCES_INFO false get_reservations_dataframes
\* returns no data and makes no Cost Explorer or Organizations call; with
\* GET_SAVINGS_PLANS_INFO false get_savings_plans_dataframes does the same.
C10_TogglesOffNoCalls ==
    /\ (pc = "reservations_done" /\ config.coverage_defined
            /\ ~config.GET_RESERVED_INSTANCES_INFO) =>
          (ret = ReturnedNone /\ calls = <<>>)
    /\ (pc = "savings_plans_done" /\ ~config.GET_SAVINGS_PLANS_INFO) =>
          (ret = ReturnedNone /\ calls = <<>>)

\* get_reservations_dataframes has returned with its toggle off, under a
\* configuration that lists services for the reservation coverage
C10_Witness ==
    /\ pc = "reservations_done"
    /\ ~config.GET_RESERVED_INSTANCES_INFO
    /\ config.LIST_OF_SERVICES_FOR_RESERVATIONS_COVERAGE # <<>>
    /\ ret = ReturnedNone
    /\ calls = <<>>

\* C9: each of the four utilization / coverage fetchers returns None and
\* raises nothing when its API call raises DataUnavailableException or any
\* other exception, and returns the raw response unchanged otherwise, so its
\* failure does not abort the run; a failing call of get_cost_and_usage is
\* not caught and aborts the run.
C9_FetchersCatchCoreDoesNot ==
    pc = "fetch_done" =>
        IF fetched.status = "not_called"
        THEN LET o == sub.raw[1]
             IN  /\ ret.status = "returned"
                 /\ o.kind = "ok" => (~ret.none /\ ret.value = o.groups)
                 /\ o.kind # "ok" => ret = ReturnedNone
        ELSE api[Len(fetched.requests)].fail =>
                (ret.status = "ClientError" /\ fetched.status = "ClientError")

\* the reservation coverage call failed with an unexpected exception and the
\* fetcher returned None
C9_Witness ==
    /\ pc = "fetch_done"
    /\ calls = <<"get_reservation_coverage">>
    /\ sub.raw[1].kind = "Error"
    /\ ret = ReturnedNone

-----------------------------------------------------------------------------
(* Properties of the conditional formats *)

\* cells of the rendered range that are not blank and whose left neighbour
\* is not blank
ComparableCells ==
    {rc \in RenderedRows(table) \X RangeColumns(table) :
        /\ ~IsBlank(SheetCell(table, rc[1], rc[2]))
        /\ ~IsBlank(SheetCell(table, rc[1], rc[2] - 1))}

\* current minus previous, in milli-dollars
Delta(rc) ==
    10 * (Val(SheetCell(table, rc[1], rc[2])) - Val(SheetCell(table, rc[1], rc[2] - 1)))

\* C6: for a non-blank normalized cell with a non-blank left neighbour the
\* red rule holds exactly when current - previous >= sensitivity and the
\* green rule exactly when current - previous < -sensitivity; with a
\* sensitivity >= 0 no cell satisfies both, so the cell is shown red in the
\* first case, green in the second and uncoloured otherwise.
C6_RedGreenThresholds ==
    pc = "format_shown" =>
        \A rc \in ComparableCells :
            LET cell == shown[rc[1]][rc[2]]
            IN  /\ ("increase" \in cell.holding) <=> (Delta(rc) >= sensitivity)
                /\ ("decrease" \in cell.holding) <=> (Delta(rc) < 0 - sensitivity)
                /\ sensitivity >= 0 =>
                      /\ ~({"increase", "decrease"} \subseteq cell.holding)
                      /\ (cell.bg = "red") <=> (Delta(rc) >= sensitivity)
                      /\ (cell.bg = "green") <=> (Delta(rc) < 0 - sensitivity)

\* with sensitivity 0.1: a delta of exactly 0.1 shown red, a delta of exactly
\* -0.1 left uncoloured and a delta of -0.11 shown green
C6_Witness ==
    /\ pc = "format_shown"
    /\ sensitivity = 100
    /\ \E a, b, c \in ComparableCells :
          /\ Delta(a) = 100 /\ shown[a[1]][a[2]].bg = "red"
          /\ Delta(b) = -100 /\ shown[b[1]][b[2]].bg = "none"
          /\ Delta(c) = -110 /\ shown[c[1]][c[2]].bg = "green"

-----------------------------------------------------------------------------
(* Properties of ce_response_to_dataframe *)

SeenKeys(inp) ==
                 UNION {Range(GroupKeys(inp[m].groups)) : m \in 1..Len(inp)}

InMonth(inp, m, k) == k \in Range(GroupKeys(inp[m].groups))

\* the amount the API reports for key k in month m, 0 when it reports none
ApiAmount(inp, m, k) ==
    IF InMonth(inp, m, k)
    THEN (CHOOSE g \in Range(inp[m].groups) : g.key = k).amt
    ELSE 0

RowsOf(t, k) == {i \in 1..Len(t.index) : t.index[i] = k}

\* C2: every dimension key seen in any month gets exactly one value per
\* month, in month order: the API amount where the key is in that month's
\* groups, 0.0 elsewhere; the i-th collected row belongs to the i-th index
\* key, and the returned table holds exactly these values (rounded to cents)
\* for every key that is not all zero.
C2_ZeroFillComplete ==
    pc = "table_built" =>
        LET all_keys == AllKeys(input)
            rows == CollectRows(<<>>, input, all_keys)
        IN  /\ Range(all_keys) = SeenKeys(input)
            /\ Len(all_keys) = Cardinality(SeenKeys(input))
            /\ Len(rows) = Len(all_keys)
            /\ \A i \in 1..Len(rows) :
                  /\ rows[i].key = all_keys[i]
                  /\ Len(rows[i].vals) = Len(input)
                  /\ \A m \in 1..Len(input) :
                        rows[i].vals[m] = ApiAmount(input, m, all_keys[i])
            /\ \A k \in SeenKeys(input) :
                  IF \A m \in 1..Len(input) : Round2(ApiAmount(input, m, k)) = 0
                  THEN RowsOf(table, k) = {}
                  ELSE /\ Cardinality(RowsOf(table, k)) = 1
                       /\ \A i \in RowsOf(table, k) : \A m \in 1..Len(input) :
                             /\ table.columns[m] = RawLabel(input[m].start)
                             /\ table.data[i][m] = Num(Round2(ApiAmount(input, m, k)))

\* a key missing from the middle month, a key that first appears in the last
\* month, and a month with zero groups, all in one input
C2_Witness ==
    /\ pc = "table_built"
    /\ input[2].groups = <<>>
    /\ \E k1, k2 \in Keys :
          /\ k1 # k2
          /\ InMonth(input, 1, k1) /\ InMonth(input, 3, k1)
          /\ ~InMonth(input, 1, k2) /\ InMonth(input, 3, k2)
          /\ GroupKeys(input[3].groups) = <<k2, k1>>
          /\ \E i \in RowsOf(table, k2) :
                table.data[i][1] = Num(0) /\ table.data[i][3] # Num(0)

RawColumns(t) == {j \in 1..Len(t.columns) : t.columns[j].kind = "raw"}

\* C3: the "Total Cost" row equals, in every month column, the sum of the
\* values of all other rows of the returned table (the rows kept after
\* rounding and dropping all-zero rows), wherever the sort has put it.
C3_TotalIsColumnSum ==
    pc = "table_built" =>
        /\ Cardinality(RowsOf(table, TotalCost)) = 1
        /\ \A t \in RowsOf(table, TotalCost) : \A j \in RawColumns(table) :
              Val(table.data[t][j]) =
                SumSeq([i \in 1..Len(table.index) |->
                          IF i = t THEN 0 ELSE Val(table.data[i][j])])

\* two kept rows whose rounded values sum to more than the rounded sum of
\* their amounts, next to a row that rounding has eliminated
C3_Witness ==
    /\ pc = "table_built"
    /\ Len(table.index) = 3
    /\ Cardinality(SeenKeys(input)) = 3
    /\ \E t \in RowsOf(table, TotalCost) : \E j \in RawColumns(table) :
          /\ Val(table.data[t][j]) = 2
          /\ Round2(SumSeq([g \in 1..Len(input[j].groups) |-> input[j].groups[g].amt])) = 1

\* the position of the first step named name in the log, 0 when absent
StepAt(name) ==
    IF \E i \in 1..Len(run.steps) : run.steps[i] = name
    THEN CHOOSE i \in 1..Len(run.steps) :
             run.steps[i] = name /\ \A j \in 1..(i - 1) : run.steps[j] # name
    ELSE 0

\* C8: in every successful run the script invokes the Reservations subsystem
\* and the Savings Plans subsystem after the cost-and-usage core (primary
\* table, top-5 drill-downs, per-account table) and before the workbook is
\* written.
C8_SubsystemsBetweenCoreAndWrite ==
    pc = "run_done" =>
        \A subsystem \in {"get_reservations_dataframes", "get_savings_plans_dataframes"} :
            /\ StepAt(subsystem) > StepAt("per_account")
            /\ StepAt(subsystem) < StepAt("write_tables")

NonTotalRows(t) == {i \in 1..Len(t.index) : t.index[i] # TotalCost}

ColumnAt(t, label) == CHOOSE j \in 1..Len(t.columns) : t.columns[j] = label

\* the normalized value of the last month minus that of the month before
KeyDiff(t, inp, k) ==
    LET i == CHOOSE r \in 1..Len(t.index) : t.index[r] = k
    IN  Val(t.data[i][ColumnAt(t, NormLabel(inp[3].start))])
          - Val(t.data[i][ColumnAt(t, NormLabel(inp[2].start))])

\* C5: the top-changing selection returns dimension keys in descending order
\* of (last normalized column - previous normalized column), never contains
\* "Total Cost", holds exactly min(5, number of non-total rows) distinct
\* keys, and no row left out has a strictly larger difference than a
\* selected one.
C5_TopFiveByDiff ==
    pc = "top_selected" =>
        LET others == {table.index[i] : i \in NonTotalRows(table)}
        IN  /\ Len(top) = Min(5, Cardinality(NonTotalRows(table)))
            /\ TotalCost \notin Range(top)
            /\ Range(top) \subseteq others
            /\ Cardinality(Range(top)) = Len(top)
            /\ \A i, j \in 1..Len(top) :
                  i < j => KeyDiff(table, input, top[i]) >= KeyDiff(table, input, top[j])
            /\ \A k \in others \ Range(top) : \A sel \in Range(top) :
                  KeyDiff(table, input, k) <= KeyDiff(table, input, sel)

\* six services, five selected, one with a smaller difference left out, and
\* a "Total Cost" row whose difference is larger than that of every service
C5_Witness ==
    /\ pc = "top_selected"
    /\ Cardinality(NonTotalRows(table)) = 6
    /\ Len(top) = 5
    /\ \E k \in {table.index[i] : i \in NonTotalRows(table)} \ Range(top) :
          KeyDiff(table, input, k) < KeyDiff(table, input, top[5])
    /\ KeyDiff(table, input, TotalCost) > KeyDiff(table, input, top[1])

\* days of a calendar month, from the calendar itself
CalendarDays(y, m) ==
    IF m = 2 /\ (y % 400 = 0 \/ (y % 4 = 0 /\ y % 100 # 0)) THEN 29
    ELSE <<31, 28, 31, 30, 31, 30, 31, 31, 30, 31, 30, 31>>[m]

\* n is x / d rounded to the nearest integer
Nearest(n, x, d) == 2 * n * d - 2 * x <= d /\ 2 * x - 2 * n * d <= d

\* C4: for a 3-month result the columns are the 3 raw months, one blank
\* separator column at position 3, then the 3 normalized columns in the same
\* month order; every normalized cell is the raw value of its row divided by
\* the number of calendar days of that month, rounded to 2 decimals
\* (290.0 in 2024-02 gives 10.0, 300.0 in 2024-04 gives 10.0).
C4_NormalizedByDays ==
    pc = "table_built" =>
        /\ Len(table.columns) = 2 * WindowMonths + 1
        /\ table.columns[WindowMonths + 1] = SepLabel
        /\ \A m \in 1..WindowMonths :
              /\ table.columns[m] = RawLabel(input[m].start)
              /\ table.columns[WindowMonths + 1 + m] = NormLabel(input[m].start)
        /\ \A i \in 1..Len(table.index) :
              /\ Len(table.data[i]) = 2 * WindowMonths + 1
              /\ IsBlank(table.data[i][WindowMonths + 1])
              /\ \A m \in 1..WindowMonths :
                    LET raw == Val(table.data[i][m])
                        n == Val(table.data[i][WindowMonths + 1 + m])
                        l == input[m].start
                    IN  /\ Nearest(n, raw, CalendarDays(l.year, l.month))
                        /\ (raw = 29000 /\ l = [year |-> 2024, month |-> 2]) => n = 1000
                        /\ (raw = 30000 /\ l = [year |-> 2024, month |-> 4]) => n = 1000

\* a row holding 290.0 in 2024-02-01 and 300.0 in 2024-04-01
C4_Witness ==
    /\ pc = "table_built"
    /\ input[1].start = [year |-> 2024, month |-> 2]
    /\ \E i \in 1..Len(table.index) :
          /\ table.index[i] # TotalCost
          /\ table.data[i][1] = Num(29000) /\ table.data[i][5] = Num(1000)
          /\ table.data[i][3] = Num(30000) /\ table.data[i][7] = Num(1000)

-----------------------------------------------------------------------------
(* Properties of utils.py *)

\* C11: days_until, for a well-formed end timestamp and any current time,
\* with d the whole-day difference between the end timestamp and now, gives
\* "Less than a day" when d < 1 (every timestamp already in the past
\* included), "1 day" when d = 1 and "<d> days" when d >= 2; exactly 1 day
\* from now gives "1 day" and 5 days from now gives "5 days".
C11_DaysUntilLabels ==
    (pc = "utils_done" /\ util.function = "days_until" /\ util.date_str.wellformed) =>
        LET delta == Ticks(util.date_str.at) - Ticks(util.now)
            d == CHOOSE k \in (-MaxDays - 1)..(MaxDays + 1) :
                     k * TicksPerDay <= delta /\ delta < (k + 1) * TicksPerDay
        IN  /\ ret.status = "returned"
            /\ d < 1 => ret.value.text = "Less than a day"
            /\ delta < 0 => ret.value.text = "Less than a day"
            /\ d = 1 => ret.value.text = "1 day"
            /\ d >= 2 => (ret.value.text = "{diff_days} days" /\ ret.value.n = d)
            /\ delta = TicksPerDay => ret.value.text = "1 day"
            /\ delta = 5 * TicksPerDay =>
                  (ret.value.text = "{diff_days} days" /\ ret.value.n = 5)

\* a timestamp two whole days and a part of a day ahead of the clock
C11_Witness ==
    /\ pc = "utils_done"
    /\ util.function = "days_until"
    /\ util.date_str.wellformed
    /\ Ticks(util.date_str.at) - Ticks(util.now) = 2 * TicksPerDay + 1
    /\ ret.value.n = 2

\* C12: get_account_info_by_account_name, for any account list the
\* organization API returns and any account name, gives "<name>(<id>)" with
\* the id of the first listed account whose name equals the input exactly,
\* and the input name unchanged when no listed account has that name; each
\* invocation makes exactly one list_accounts call.
C12_AccountLabel ==
    (pc = "utils_done" /\ util.function = "get_account_info_by_account_name") =>
        LET named == {i \in 1..Len(util.accounts) :
                         util.accounts[i].Name = util.account_name}
        IN  /\ calls = <<"list_accounts">>
            /\ ~util.fails =>
                  /\ ret.status = "returned"
                  /\ named = {} => ret.value = <<util.account_name>>
                  /\ \A i \in named :
                        (\A j \in named : i <= j) =>
                            ret.value = <<util.account_name, "(", util.accounts[i].Id, ")">>

\* two listed accounts have the name asked for, under different ids, after
\* an account of another name
C12_Witness ==
    /\ pc = "utils_done"
    /\ util.function = "get_account_info_by_account_name"
    /\ ~util.fails
    /\ Len(util.accounts) = 3
    /\ util.accounts[1].Name # util.account_name
    /\ util.accounts[2].Name = util.account_name
    /\ util.accounts[3].Name = util.account_name
    /\ util.accounts[2].Id # util.accounts[3].Id
    /\ ret.value = <<util.account_name, "(", util.accounts[2].Id, ")">>

\* months counted from year 0 of the date an ISO string names
MonthIndex(iso) == iso[1] * 12 + iso[2] - 1

\* C13: for every current date (any day of any month, the 29th-31st and
\* January-March included) both report windows have start < end with both
\* ends a first-of-month date: the cost-and-usage window starts exactly 3
\* calendar months before the first day of the current month and ends on
\* it, the utilization window runs from the first day of the previous month
\* to the first day of the current month.
C13_WindowsFirstOfMonth ==
    (pc = "utils_done" /\ util.function \in {"cost_window", "utilization_window"}) =>
        LET w == ret.value
            back == IF util.function = "cost_window" THEN 3 ELSE 1
        IN  /\ w.Start[3] = 1
            /\ w.End[3] = 1
            /\ w.End[1] = util.today.year
            /\ w.End[2] = util.today.month
            /\ w.Start[2] \in 1..12
            /\ MonthIndex(w.End) - MonthIndex(w.Start) = back
            /\ \/ w.Start[1] < w.End[1]
               \/ w.Start[1] = w.End[1] /\ w.Start[2] < w.End[2]

\* the clock shows a 31st of a month from January to March, and the cost
\* window starts in the year before
C13_Witness ==
    /\ pc = "utils_done"
    /\ util.function = "cost_window"
    /\ util.today.day = 31
    /\ util.today.month <= 3
    /\ ret.value.Start[1] = util.today.year - 1

-----------------------------------------------------------------------------
(* Properties of the purchase recommendations *)

CallCount(name) == Len(SelectSeq(calls, LAMBDA c : c = name))

\* position in SP_CONFIG of the entry a savings-plans record was made from
ConfigIndex(record) ==
    CHOOSE i \in 1..Len(SP_CONFIG) :
        humanize_savings_plans_type(SP_CONFIG[i].SavingsPlansType) = record.SavingsPlansType

\* C14: the purchase-recommendation fetchers (reservations over the 5
\* RPR_CONFIG entries, savings plans over the 3 SP_CONFIG entries) query
\* every configured entry exactly once in configuration order; an entry
\* whose call fails or whose summary or savings amount is missing gives no
\* record and does not stop the others; the records are a subsequence of
\* the configuration order and the fetcher itself never raises.
C14_EveryEntryQueriedOnce ==
    /\ (pc = "savings_plans_done" /\ sub.i > 0) =>
          /\ ret.status = "returned"
          /\ CallCount("get_savings_plans_purchase_recommendation") = Len(SP_CONFIG)
          /\ Len(sub.raw) <= Len(SP_CONFIG)
          /\ \A i, j \in 1..Len(sub.raw) :
                i < j => ConfigIndex(sub.raw[i]) < ConfigIndex(sub.raw[j])
    /\ (pc = "reservations_done" /\ config.coverage_defined
            /\ config.GET_RESERVED_INSTANCES_INFO
            /\ sub.raw # <<>> /\ ret.status # "ClientError") =>
          /\ ret.status = "returned"
          /\ CallCount("get_reservation_purchase_recommendation") = Len(RPR_CONFIG)

\* C15: every record of the reservation purchase-recommendation table
\* carries its lookback period as the humanized label of the utility
\* mapping (SEVEN_DAYS -> "7 days", THIRTY_DAYS -> "30 days", SIXTY_DAYS ->
\* "60 days"), not the raw API code, and its estimated monthly savings
\* formatted by the dollar helper, as the savings-plans table does.
C15_ReservationsLookbackHumanized ==
    (pc = "utils_done"
        /\ util.function = "format_reservations_purchase_recomendations_df") =>
        /\ Len(ret.value) = Len(util.raw_df)
        /\ \A i \in 1..Len(util.raw_df) :
              /\ ret.value[i].LookbackPeriodInDays \in {"7 days", "30 days", "60 days"}
              /\ ret.value[i].LookbackPeriodInDays =
                    humanize_lookback_period(util.raw_df[i].LookbackPeriodInDays)
              /\ ret.value[i].EstimatedMonthlySavings =
                    to_dollars(util.raw_df[i].EstimatedMonthlySavings)

-----------------------------------------------------------------------------
(* Properties of get_savings_plans_dataframes *)

\* C16: in every result of get_savings_plans_dataframes (toggle on) the
\* "Savings plans coverage" table is absent whenever the "Savings plans
\* utilization details" table is absent, even if the coverage call itself
\* succeeded; the purchase-recommendations entry is produced independently
\* of both.
C16_CoverageFollowsUtilization ==
    (pc = "savings_plans_done" /\ ret.status = "returned" /\ ~ret.none) =>
        /\ ret.value.utilization.none => ret.value.coverage.none
        /\ ret.value.recommendations.none <=> sub.raw = <<>>
        /\ CallCount("get_savings_plans_purchase_recommendation") = Len(SP_CONFIG)

\* the utilization call reported no data, the coverage call answered with
\* coverages, and a recommendation was found
C16_Witness ==
    /\ pc = "savings_plans_done"
    /\ ret.status = "returned"
    /\ ~ret.none
    /\ ret.value.utilization.none
    /\ sub.coverage_answer = "ok"
    /\ ret.value.coverage.none
    /\ ~ret.value.recommendations.none

-----------------------------------------------------------------------------
(* Properties of the order of the rows of the cost table *)

\* the month values of row i of the table, oldest month first
MonthValues(t, i) ==
    [j \in 1..Cardinality(RawColumns(t)) |-> Val(t.data[i][j])]

\* a is not below b in the lexicographic order, first element most significant
LexAtLeast(a, b) ==
    \A j \in 1..Len(a) :
        (\A k \in 1..(j - 1) : a[k] = b[k]) => a[j] >= b[j]

\* C17: the rows of the cost table (including "Total Cost") are sorted
\* descending by the most recent month's value: for any two adjacent rows
\* the upper row's value in the latest month column is greater than or
\* equal to the lower row's.
C17_SortedByLatestMonth ==
    pc = "table_built" =>
        \A i \in 1..(Len(table.index) - 1) :
            Val(table.data[i][Len(input)]) >= Val(table.data[i + 1][Len(input)])

\* C17 (amended): the rows of the cost table (including "Total Cost") are
\* sorted descending lexicographically over all month columns, the oldest
\* month most significant: for any two adjacent rows the upper row's month
\* values, oldest first, are not below the lower row's in that order.
C17_SortedLexicographically ==
    pc = "table_built" =>
        \A i \in 1..(Len(table.index) - 1) :
            LexAtLeast(MonthValues(table, i), MonthValues(table, i + 1))

\* two service rows, the upper one larger in the oldest month and smaller in
\* the latest
C17_Witness ==
    /\ pc = "table_built"
    /\ \E i \in 1..(Len(table.index) - 1) :
          /\ table.index[i] # TotalCost
          /\ table.index[i + 1] # TotalCost
          /\ Val(table.data[i][1]) > Val(table.data[i + 1][1])
          /\ Val(table.data[i][Len(input)]) < Val(table.data[i + 1][Len(input)])

-----------------------------------------------------------------------------
(* Properties of the order of the conditional formats *)

\* the cells of the rendered range that are blank or have a blank cell to
\* their left
GuardedCells ==
    {rc \in RenderedRows(table) \X RangeColumns(table) :
        \/ IsBlank(SheetCell(table, rc[1], rc[2]))
        \/ IsBlank(SheetCell(table, rc[1], rc[2] - 1))}

\* C18: the four conditional-format rules are registered over the same cell
\* range in the order (a) left neighbour blank, (b) cell blank, (c) red,
\* (d) green, so a cell that is blank or whose left neighbour is blank is
\* given the white background and is never shown red or green, whatever
\* the numeric comparison evaluates to.
C18_BlankGuardsFirst ==
    pc = "format_shown" =>
        /\ [i \in 1..Len(rules) |-> rules[i].criteria] =
              <<"left_blank", "current_blank", "increase", "decrease">>
        /\ \A rc \in GuardedCells :
              /\ shown[rc[1]][rc[2]].bg = "white"
              /\ shown[rc[1]][rc[2]].bg \notin {"red", "green"}

\* a first normalized cell whose left neighbour is the blank separator and
\* for which the red comparison holds, and an empty cell below the table for
\* which the green comparison holds, both shown white
C18_Witness ==
    /\ pc = "format_shown"
    /\ \E rc \in GuardedCells :
          /\ ~IsBlank(SheetCell(table, rc[1], rc[2]))
          /\ "increase" \in shown[rc[1]][rc[2]].holding
          /\ shown[rc[1]][rc[2]].bg = "white"
    /\ \E rc \in GuardedCells :
          /\ IsBlank(SheetCell(table, rc[1], rc[2]))
          /\ "decrease" \in shown[rc[1]][rc[2]].holding
          /\ shown[rc[1]][rc[2]].bg = "white"

-----------------------------------------------------------------------------
(* Properties of the module-level script *)

\* the requests sent with the given GroupBy, in the order they were sent
RequestsBy(group_by) ==
    SelectSeq(run.requests, LAMBDA request : request.extra.GroupBy = group_by)

\* C19: get_cost_and_usage_report_per_service leaves the base cost filter
\* unchanged: after any list of services the base filter still has exactly
\* its original sub-filters, and the filter sent for each service is the
\* base filter plus exactly one SERVICE equality constraint naming that
\* service only; the recorded diff of each service is the service-level
\* difference of the primary table's last two normalized columns.
C19_BaseFilterUnchanged ==
    LET base == <<[Not |-> TRUE, Key |-> "RECORD_TYPE", Value |-> "Credit"],
                  [Not |-> TRUE, Key |-> "RECORD_TYPE", Value |-> "Refund"]>>
        sent == RequestsBy("USAGE_TYPE")
    IN  /\ run.filter = base
        /\ \A request \in Range(RequestsBy("SERVICE") \o RequestsBy("LINKED_ACCOUNT")) :
              request.extra.Filter = base
        /\ Len(sent) <= Len(top)
        /\ \A k \in 1..Len(sent) :
              sent[k].extra.Filter =
                  Append(base, [Not |-> FALSE, Key |-> "SERVICE", Value |-> top[k]])
        /\ \A k \in 1..Len(run.top_five_services_df) :
              /\ run.top_five_services_df[k].service = top[k]
              /\ run.top_five_services_df[k].diff = KeyDiff(table, input, top[k])

\* two services were broken down, the second with a difference other than
\* zero, and the per-account request followed
C19_Witness ==
    /\ pc = "run_remove"
    /\ Len(RequestsBy("USAGE_TYPE")) = 2
    /\ Len(RequestsBy("USAGE_TYPE")[2].extra.Filter) = 3
    /\ run.top_five_services_df[2].diff # 0
    /\ run.top_five_services_df[1].diff # run.top_five_services_df[2].diff
    /\ Len(RequestsBy("LINKED_ACCOUNT")) = 1

\* the positions of the steps named name in the log
StepsNamed(name) == {i \in 1..Len(run.steps) : run.steps[i] = name}

\* C20: a pre-existing file at the output path is deleted at most once, only
\* after every API fetch and table build of the run has completed and
\* before the workbook writer is opened; hence a run that aborts on an API
\* failure leaves a pre-existing output file untouched, and only a failure
\* during the write can end the run with the prior file gone and no new
\* file complete.
C20_DeletionAfterFetches ==
    LET fetches == {"get_caller_identity", "primary_fetch", "primary_table",
                    "top_five", "per_service", "per_account"}
        removals == StepsNamed("os.remove")
    IN  /\ Cardinality(removals) <= 1
        /\ (run.existed /\ run.file # "old") => removals # {}
        /\ \A at \in removals :
              /\ Cardinality(StepsNamed("per_account")) = 1
              /\ Cardinality(StepsNamed("per_service")) = Len(top)
              /\ \A i \in 1..Len(run.steps) :
                    /\ run.steps[i] \in fetches => i < at
                    /\ run.steps[i] \in {"write_tables", "save"} => at < i
        /\ (pc = "run_aborted" /\ run.error \in {"ClientError", "TypeError"}) =>
              /\ removals = {}
              /\ run.file = IF run.existed THEN "old" ELSE "absent"
        /\ (pc \in {"run_aborted", "run_done"} /\ run.existed
                /\ run.file \notin {"old", "new"}) =>
              (run.error = "OSError" /\ StepsNamed("save") # {})

\* a run that found an old file, fetched for two services, removed the file
\* and then failed to save the workbook
C20_Witness ==
    /\ pc = "run_aborted"
    /\ run.existed
    /\ run.file = "absent"
    /\ run.error = "OSError"
    /\ Len(run.top_five_services_df) = 2
    /\ StepsNamed("os.remove") # {}

-----------------------------------------------------------------------------
(* Properties of the worksheet layout *)

BannerNames == {"generated_using", "generated_by", "monthly_banner",
                "normalized_banner", "sensitivity_label", "sensitivity_value"}

\* the tables and titles of the sheet, in the order they were written
LayoutSections ==
    SelectSeq(run.sheet,
              LAMBDA p : p.what \notin BannerNames \cup {"comments", "suggestions"})

\* the two placements have a cell in common
SharesCell(p, q) ==
    /\ p.first_row <= q.last_row /\ q.first_row <= p.last_row
    /\ p.first_col <= q.last_col /\ q.first_col <= p.last_col

\* the names of the sections of a sheet that holds services break downs
ExpectedSections(services) ==
    <<"primary_table", "per_account_title", "per_account_table", "top_five_banner">>
    \o [i \in 1..(2 * services) |->
           IF i % 2 = 1 THEN "service_title" ELSE "service_table"]

\* C21: worksheet layout: for any sizes of the primary table, the
\* per-account table and the drill-down tables (each at least the header
\* plus one row), the row ranges of the banner rows, the primary table
\* starting at row index 6, the per-account title and table, the "Top 5
\* services" banner and each per-service title and table are pairwise
\* disjoint and appear in that top-to-bottom order, so no title row or
\* merged range overwrites a table row of another section.
C21_LayoutDisjointInOrder ==
    LET sections == LayoutSections
        services == run.top_five_services_df
    IN  run.sheet # <<>> =>
          /\ [i \in 1..Len(sections) |-> sections[i].what]
                = ExpectedSections(Len(services))
          /\ sections[1].first_row = 6
          /\ sections[1].last_row = 6 + Len(table.index)
          /\ sections[3].last_row - sections[3].first_row
                = Len(run.df_per_account.index)
          /\ \A k \in 1..Len(services) :
                sections[4 + 2 * k].last_row - sections[4 + 2 * k].first_row
                    = Len(services[k].df.index)
          /\ \A i \in 1..Len(sections) : sections[i].first_row <= sections[i].last_row
          /\ \A i \in 1..(Len(sections) - 1) :
                sections[i].last_row < sections[i + 1].first_row
          /\ \A i \in 1..Len(run.sheet) :
                run.sheet[i].what \in BannerNames =>
                    run.sheet[i].last_row < sections[1].first_row
          /\ \A i, j \in 1..Len(run.sheet) :
                i # j => ~SharesCell(run.sheet[i], run.sheet[j])

\* a saved workbook with five break downs of different lengths below a
\* primary table of more than five services and a per-account table of
\* several accounts; the break down banner sits right below the last
\* account row
C21_Witness ==
    /\ pc = "run_done"
    /\ Len(table.index) > 6
    /\ Len(run.df_per_account.index) > 2
    /\ Len(run.top_five_services_df) = 5
    /\ \E k, l \in 1..5 :
          Len(run.top_five_services_df[k].df.index)
              # Len(run.top_five_services_df[l].df.index)
    /\ \E i \in 1..Len(run.sheet) : run.sheet[i].what = "monthly_banner"
    /\ LayoutSections[4].first_row = LayoutSections[3].last_row + 1
    /\ LayoutSections[14].last_row = run.row_counter - 3

====
